---- MODULE Spec2Model ----
(***************************************************************************)
(* A model of capreolus' training orchestration and data sampling:         *)
(*   capreolus/trainer/__init__.py  PytorchTrainer, TensorFlowTrainer      *)
(*   capreolus/reranker/base.py     Reranker.save_weights / load_weights   *)
(*   capreolus/sampler/__init__.py  Sampler.prepare / clean                *)
(* The run directory (weights/<iter>.p, weights/<iter>.p.optimizer,        *)
(* dev.best, info/loss.txt) is part of the state; a training process is    *)
(* launched, may be interrupted, and may be launched again.                *)
(***************************************************************************)
EXTENDS Integers, Sequences, FiniteSets, TLC

VARIABLES
    cfg,                \* the trainer's config of the current behaviour
    weights_dir,        \* <run>/weights exists
    loss_file,          \* <run>/info/loss.txt
    weights_files,      \* <run>/weights/<iter>.p
    opt_files,          \* <run>/weights/<iter>.p.optimizer
    dev_best,           \* <run>/dev.best
    dev_best_opt,       \* <run>/dev.best.optimizer
    run_files,          \* <run_dev>/<iter>.run, the iterations that have one
    pc,                 \* where the training process is ("off": no process)
    fastforward,        \* cfg["fastforward"] of the running process
    model_w,            \* the model's persistable weights (in memory)
    opt_s,              \* the optimizer's state (in memory)
    grads,              \* batches back-propagated since the last zero_grad
    rng,                \* the state of the process-global `random` module
    gen_fresh,          \* the dataloader iterator in use has drawn nothing yet
    initial_iter,       \* train(): initial_iter
    niter,              \* train(): niter (also the replay loop's niter)
    bi,                 \* enumerate(train_dataloader): batches drawn so far
    batches_since_update, \* single_train_iteration: batches_since_update
    iter_batches,       \* the batches drawn by the running iteration
    train_loss,         \* train(): train_loss
    dev_best_metric,    \* train(): dev_best_metric
    ff_ret,             \* what the last fastforward_training call returned
    ff_exc,             \* the exception that escaped it ("none": none)
    h_launches,         \* history: the fastforward flag of every launch
    h_lines,            \* history: loss lines on disk when the last process ended
    h_int_niter,        \* history: the iteration the last process was at when it ended
    h_consumed,         \* history: per iteration, the batch sequences consumed
    h_replayed,         \* history: batches drawn by this launch's replay
    h_validated,        \* history: this launch's <<iteration, metric>> validations
    h_best_iter,        \* history: the iteration whose weights dev.best holds
    h_scored,           \* history: reranker.score calls of this launch
    h_end,              \* history: how the last process ended
    h_tampered,         \* history: a checkpoint file was lost from the directory
    qid_to_docids,      \* Sampler: self.qid_to_docids
    qid_to_reldocs,     \* Sampler: self.qid_to_reldocs
    qid_to_negdocs,     \* Sampler: self.qid_to_negdocs
    total_samples,      \* Sampler: self.total_samples
    s_input,            \* the arguments of Sampler.prepare
    s_state,            \* "new", or "prepared" once prepare() has run
    t_kind,             \* the trainer variant being configured
    t_cfg,              \* the config it is given
    t_state,            \* "new", "rejected", "constructed", "training", "trained"
    t_drawn,            \* training and dev samples drawn by that trainer
    t_written,          \* weights, loss, run and record files written by it
    g_kind,             \* the sampler variant: "triplet", "pair" or "pred"
    g_missing,          \* extractor: docids whose docid2passages entry is empty
    g_pc,               \* generate_samples: "idle", "shuffle", "draw", "done", "raised"
    g_order,            \* generate_samples: all_qids as shuffled (pred: the dict's key order)
    g_qi,               \* generate_samples: position in all_qids of the query at hand
    g_phase,            \* pair: "rel" or "neg", the list of the query being emitted
    g_di,               \* pair, pred: docs of the query at hand already emitted
    g_round,            \* the id2vec calls of the running round (pred: of the pass)
    g_event,            \* the last step of the stream: "none", "yield", "skip"
    k_a,                \* a sampler instance: its variant, cache path, pool and qrels
    k_b,                \* another sampler instance
    k_hash_a,           \* get_hash() of the first instance (NoHash before the call)
    k_hash_b,           \* get_hash() of the other instance
    p_doc,              \* get_passages_for_doc: the document, a list of tokens
    p_cfg,              \* BertPassage config: passagelen, stride, numpassages
    p_pc,               \* "new", "returned" or "raised"
    p_passages,         \* the list get_passages_for_doc returned
    p_exc,              \* the exception it raised ("none": none)
    v_qtoks,            \* id2vec: self.qid2toks[qid]
    v_pos,              \* id2vec: self.docid2passages[posid]
    v_neg,              \* id2vec: negid given or not, and self.docid2passages[negid]
    v_cfg,              \* BertPassage config: maxseqlen, numpassages
    v_pc,               \* "new", "returned" or "raised"
    v_data,             \* the dict id2vec returned
    cb_kind,            \* checkpointing: the trainer variant, "pytorch" or "tensorflow"
    cb_epoch,           \* iterations (epochs) whose end-of-iteration work is done
    cb_best_metric,     \* TrecCheckpointCallback.best_metric / train(): dev_best_metric
    cb_weights,         \* <run>/weights/<iter>.p as that trainer wrote them
    cb_dev_best,        \* <run>/dev.best as that trainer wrote it
    r_mode,             \* serialization: "train" or "dev"
    r_cfg,              \* BertPassage config: maxseqlen, numpassages
    r_sample,           \* the sample dict given to create_tf_*_feature
    r_pc,               \* "new", "created", "parsed" or "raised"
    r_features,         \* the features created, each a dict from field name to tensor
    r_parsed,           \* the tensors parse_tf_*_example returned for each of them
    r_exc,              \* the exception raised ("none": none)
    x_rng,              \* two generators in one process: the global `random` state
    x_a,                \* the draws the first generator has yielded
    x_b_seed,           \* config["seed"] of the other generator's sampler
    x_b,                \* the other generator: "none", "created", "running", "abandoned"
    x_b_drawn           \* draws the other generator has yielded

trainerVars ==
    <<cfg, weights_dir, loss_file, weights_files, opt_files, dev_best, dev_best_opt,
      run_files, pc, fastforward, model_w, opt_s, grads, rng, gen_fresh,
      initial_iter, niter, bi, batches_since_update, iter_batches, train_loss,
      dev_best_metric, ff_ret, ff_exc>>

historyVars ==
    <<h_launches, h_lines, h_int_niter, h_consumed, h_replayed,
      h_validated, h_best_iter, h_scored, h_end, h_tampered>>

samplerVars ==
    <<qid_to_docids, qid_to_reldocs, qid_to_negdocs, total_samples, s_input, s_state>>

configVars == <<t_kind, t_cfg, t_state, t_drawn, t_written>>

genVars ==
    <<g_kind, g_missing, g_pc, g_order, g_qi, g_phase, g_di, g_round, g_event>>

hashVars == <<k_a, k_b, k_hash_a, k_hash_b>>

passageVars == <<p_doc, p_cfg, p_pc, p_passages, p_exc>>

vecVars == <<v_qtoks, v_pos, v_neg, v_cfg, v_pc, v_data>>

\* feature construction and serialization, downstream of the passages
ckptVars == <<cb_kind, cb_epoch, cb_best_metric, cb_weights, cb_dev_best>>

recordVars == <<r_mode, r_cfg, r_sample, r_pc, r_features, r_parsed, r_exc>>

streamsVars == <<x_rng, x_a, x_b_seed, x_b, x_b_drawn>>

pipelineVars == <<vecVars, ckptVars, recordVars, streamsVars>>

nonTrainerVars == <<samplerVars, configVars, genVars, hashVars, passageVars, pipelineVars>>
nonSamplerVars == <<trainerVars, historyVars, configVars, genVars, hashVars, passageVars, pipelineVars>>
nonConfigVars == <<trainerVars, historyVars, samplerVars, genVars, hashVars, passageVars, pipelineVars>>
nonGenVars == <<trainerVars, historyVars, samplerVars, configVars, hashVars, passageVars, pipelineVars>>
nonHashVars == <<trainerVars, historyVars, samplerVars, configVars, genVars, passageVars, pipelineVars>>
nonPassageVars ==
    <<trainerVars, historyVars, samplerVars, configVars, genVars, hashVars, pipelineVars>>
nonVecVars ==
    <<trainerVars, historyVars, samplerVars, configVars, genVars, hashVars, passageVars,
      ckptVars, recordVars, streamsVars>>
nonCkptVars ==
    <<trainerVars, historyVars, samplerVars, configVars, genVars, hashVars, passageVars,
      vecVars, recordVars, streamsVars>>
nonRecordVars ==
    <<trainerVars, historyVars, samplerVars, configVars, genVars, hashVars, passageVars,
      vecVars, ckptVars, streamsVars>>
nonStreamsVars ==
    <<trainerVars, historyVars, samplerVars, configVars, genVars, hashVars, passageVars,
      vecVars, ckptVars, recordVars>>

vars ==
    <<trainerVars, historyVars, samplerVars, configVars, genVars, hashVars, passageVars,
      pipelineVars>>

----------------------------------------------------------------------------
(* Bounds of the model *)

MaxIters == 2          \* the largest niters a config has
MaxLaunches == 3       \* processes launched on one run directory
MaxLines == 3          \* lines of a loss file found on disk
MaxMetric == 1         \* the evaluator's target metric ranges over 0..MaxMetric

(* Program constants *)

seed == 1234           \* ConfigOption("seed", 1234)
NegInf == -1           \* -np.inf, below every metric

----------------------------------------------------------------------------
(* Files *)

NoFile == [exists |-> FALSE, ok |-> FALSE, keys |-> {}, w |-> 0]
NoLossFile == [exists |-> FALSE, lines |-> <<>>]

\* A file of the weights directory that was never written is missing.
FileAt(files, i) == IF i \in DOMAIN files THEN files[i] ELSE NoFile

\* model.state_dict().keys() of the reranker
state_dict_keys == {"embedding.weight", "conv.weight", "out.bias", "pos_nosave_.weight"}

\* "embedding.weight" in k, "_nosave_" in k: Python's substring tests
HasEmbedding(k) == k \in {"embedding.weight", "doc.embedding.weight"}
HasNoSave(k) == k \in {"pos_nosave_.weight"}

\* the keys save_weights pickles, and the cur_keys of load_weights
persisted_keys == {k \in state_dict_keys : ~HasEmbedding(k) /\ ~HasNoSave(k)}
cur_keys == {k \in state_dict_keys : ~(HasEmbedding(k) \/ HasNoSave(k))}

\* (mutant) save_weights that leaves the optimizer file unwritten
save_optimizer_file_unwritten(os) == NoFile

\* Reranker.save_weights: the weights file, then the optimizer file
save_weights_file(mw) == [exists |-> TRUE, ok |-> TRUE, keys |-> persisted_keys, w |-> mw]
save_optimizer_file(os) == [exists |-> TRUE, ok |-> TRUE, keys |-> {}, w |-> os]

\* (mutant) load_weights that never loads the optimizer state
load_weights_skip_optimizer(wf, of, mw, os) ==
    IF ~wf.exists \/ ~wf.ok \/ cur_keys \ wf.keys # {}
    THEN [raised |-> TRUE, model_w |-> mw, opt_s |-> os]
    ELSE [raised |-> ~of.exists \/ ~of.ok, model_w |-> wf.w, opt_s |-> os]

\* Reranker.load_weights: open and unpickle the weights, check the keys, load them
\* into the model, and only then open and load the optimizer file.
load_weights(wf, of, mw, os) ==
    IF ~wf.exists \/ ~wf.ok
    THEN [raised |-> TRUE, model_w |-> mw, opt_s |-> os]
    ELSE IF cur_keys \ wf.keys # {}
    THEN [raised |-> TRUE, model_w |-> mw, opt_s |-> os]
    ELSE IF ~of.exists \/ ~of.ok
    THEN [raised |-> TRUE, model_w |-> wf.w, opt_s |-> os]
    ELSE [raised |-> FALSE, model_w |-> wf.w, opt_s |-> of.w]

----------------------------------------------------------------------------
(* The loss file: a sequence of lines, a line a sequence of tokens *)

IntTok(n) == [k |-> "int", v |-> n]        \* str(idx)
FloatTok(x) == [k |-> "float", v |-> x]    \* str(loss) of a Python float
JunkTok == [k |-> "junk", v |-> 0]         \* neither

IntParses(tok) == tok.k = "int"                 \* int(tok) does not raise
FloatParses(tok) == tok.k \in {"int", "float"}  \* float(tok) does not raise

\* (mutant) the loss lines numbered from 1
loss_lines_from_one(losses) ==
    [i \in 1..Len(losses) |-> <<IntTok(i), FloatTok(losses[i])>>]

\* "\n".join(f"{idx} {loss}" for idx, loss in enumerate(train_loss))
loss_lines(losses) == [i \in 1..Len(losses) |-> <<IntTok(i - 1), FloatTok(losses[i])>>]

RECURSIVE load_loss_lines(_, _, _)
load_loss_lines(lines, lineidx, loss) ==
    IF lineidx >= Len(lines)
    THEN [exc |-> "none", loss |-> loss]
    ELSE LET line == lines[lineidx + 1] IN
         IF Len(line) = 0
         THEN load_loss_lines(lines, lineidx + 1, loss)
         ELSE IF Len(line) # 2 \/ ~IntParses(line[1])
         THEN [exc |-> "ValueError", loss |-> loss]
         ELSE IF line[1].v # lineidx
         THEN [exc |-> "IOError", loss |-> loss]
         ELSE IF ~FloatParses(line[2])
         THEN [exc |-> "ValueError", loss |-> loss]
         ELSE load_loss_lines(lines, lineidx + 1, Append(loss, line[2].v))

\* PytorchTrainer.load_loss_file
load_loss_file(f) ==
    IF ~f.exists
    THEN [exc |-> "IOError", loss |-> <<>>]
    ELSE load_loss_lines(f.lines, 0, <<>>)

\* (mutant) fastforward_training that resumes at the last recorded iteration
\* instead of the one after it
fastforward_training_same_iter(wdir, lf, wfiles, ofiles, mw, os) ==
    IF ~(wdir /\ lf.exists) \/ load_loss_file(lf).exc # "none"
    THEN [ret |-> 0, exc |-> "none", model_w |-> mw, opt_s |-> os]
    ELSE LET last_loss_iteration == Len(load_loss_file(lf).loss) - 1
             lw == load_weights(FileAt(wfiles, last_loss_iteration),
                                FileAt(ofiles, last_loss_iteration), mw, os)
         IN [ret |-> IF lw.raised \/ last_loss_iteration < 0
                     THEN 0 ELSE last_loss_iteration,
             exc |-> "none", model_w |-> lw.model_w, opt_s |-> lw.opt_s]

\* PytorchTrainer.fastforward_training
fastforward_training(wdir, lf, wfiles, ofiles, mw, os) ==
    IF ~(wdir /\ lf.exists)
    THEN [ret |-> 0, exc |-> "none", model_w |-> mw, opt_s |-> os]
    ELSE LET r == load_loss_file(lf) IN
         IF r.exc = "IOError"
         THEN [ret |-> 0, exc |-> "none", model_w |-> mw, opt_s |-> os]
         ELSE IF r.exc # "none"
         THEN [ret |-> 0, exc |-> r.exc, model_w |-> mw, opt_s |-> os]
         ELSE LET last_loss_iteration == Len(r.loss) - 1
                  lw == load_weights(FileAt(wfiles, last_loss_iteration),
                                     FileAt(ofiles, last_loss_iteration), mw, os)
              IN IF lw.raised
                 THEN [ret |-> 0, exc |-> "none",
                       model_w |-> lw.model_w, opt_s |-> lw.opt_s]
                 ELSE [ret |-> last_loss_iteration + 1, exc |-> "none",
                       model_w |-> lw.model_w, opt_s |-> lw.opt_s]

----------------------------------------------------------------------------
(* The trainer's config *)

\* gradacc is a ratio num/den, so that a non-integer gradacc can be configured
GradAcc(n, d) == [num |-> n, den |-> d]

\* PytorchTrainer.config: the sanity checks; TRUE when none of them raises
config_ok(c) ==
    /\ ~(c.batch < 1)
    /\ ~(c.niters <= 0)
    /\ ~(c.itersize < c.batch)
    /\ ~(c.gradacc.num < c.gradacc.den \/ c.gradacc.num % c.gradacc.den # 0)
    /\ ~(c.lr <= 0)

\* The configs of the training runs explored: small, and accepted by config()
TrainCfgs ==
    {c \in [batch : {1, 2}, itersize : {2}, niters : {1, MaxIters},
            gradacc : {GradAcc(1, 1), GradAcc(2, 1)}, lr : {1},
            validatefreq : {1, 2}] : config_ok(c)}

batches_per_epoch(c) == c.itersize \div c.batch     \* itersize // batch
batches_per_step(c) == c.gradacc.num \div c.gradacc.den

----------------------------------------------------------------------------
(* The training stream: TrainTripletSampler.generate_samples behind a      *)
(* DataLoader. Every `for ... in enumerate(train_dataloader)` makes a new  *)
(* generator, and a generator's first step is random.seed(seed).           *)

RngStates == 0..15
\* `random` is seeded from the system's entropy when the process starts: two of
\* the sixteen states stand for it
LaunchRngs == {0, 9}
random_step(r) == (5 * r + 3) % 16       \* one draw from `random`
random_seed(s) == s % 16                 \* random.seed(s)

RECURSIVE draw_samples(_, _, _)
draw_samples(r, n, acc) ==
    IF n = 0 THEN [rng |-> r, batch |-> acc]
    ELSE draw_samples(random_step(r), n - 1, Append(acc, random_step(r)))

\* (mutant) a generator that does not call random.seed
next_batch_unseeded(r, fresh, c) == draw_samples(r, c.batch, <<>>)

\* the next batch of the dataloader iterator: cfg.batch samples of the generator
next_batch(r, fresh, c) ==
    draw_samples(IF fresh THEN random_seed(seed) ELSE r, c.batch, <<>>)

\* torch.stack(iter_loss).mean(): a function of the weights and the batches scored
iteration_loss(mw, batches) == 1 + ((mw + Len(batches)) % 2)

----------------------------------------------------------------------------
(* The training process: PytorchTrainer.train *)

Iters == 0..(MaxIters - 1)

ProcessLocals ==
    <<initial_iter, niter, bi, batches_since_update, iter_batches, train_loss,
      dev_best_metric, gen_fresh>>
RunDir ==
    <<weights_dir, loss_file, weights_files, opt_files, dev_best, dev_best_opt,
      run_files>>

\* the process is gone: what it held in memory is gone with it
ProcessEnds(how) ==
    /\ pc' = "off"
    /\ h_end' = how
    /\ model_w' = 0 /\ opt_s' = 0 /\ grads' = 0 /\ rng' = 0
    /\ initial_iter' = 0 /\ niter' = 0 /\ bi' = 0 /\ batches_since_update' = 0
    /\ iter_batches' = <<>> /\ train_loss' = <<>> /\ dev_best_metric' = NegInf
    /\ gen_fresh' = TRUE /\ fastforward' = FALSE
    /\ h_lines' = Len(loss_file.lines)
    /\ h_int_niter' = IF pc \in {"fastforward", "resume", "replay"}
                      THEN h_int_niter ELSE niter

\* train(), up to its call of fastforward_training: a fresh model and optimizer,
\* get_paths_for_early_stopping makes the directories
Launch ==
    /\ pc = "off"
    /\ Len(h_launches) < MaxLaunches
    /\ \E ff \in BOOLEAN :
         /\ fastforward' = ff
         /\ h_launches' = Append(h_launches, ff)
    /\ \E r \in LaunchRngs : rng' = r
    /\ pc' = "fastforward"
    /\ model_w' = 0 /\ opt_s' = 0 /\ grads' = 0
    /\ weights_dir' = TRUE
    /\ ff_ret' = 0 /\ ff_exc' = "none"
    /\ h_replayed' = 0 /\ h_validated' = <<>> /\ h_scored' = 0
    /\ UNCHANGED <<cfg, loss_file, weights_files, opt_files, dev_best, dev_best_opt,
                   run_files, ProcessLocals>>
    /\ UNCHANGED <<h_lines, h_int_niter, h_consumed, h_best_iter, h_end, h_tampered>>
    /\ UNCHANGED nonTrainerVars

\* initial_iter = self.fastforward_training(...) if self.cfg["fastforward"] else 0
FastForward ==
    /\ pc = "fastforward"
    /\ LET r == IF fastforward
                THEN fastforward_training(weights_dir, loss_file, weights_files,
                                          opt_files, model_w, opt_s)
                ELSE [ret |-> 0, exc |-> "none", model_w |-> model_w, opt_s |-> opt_s]
       IN /\ ff_ret' = r.ret
          /\ ff_exc' = r.exc
          /\ IF r.exc # "none"
             THEN /\ ProcessEnds("crashed")
                  /\ UNCHANGED <<cfg, RunDir>>
             ELSE /\ pc' = "resume"
                  /\ initial_iter' = r.ret
                  /\ model_w' = r.model_w
                  /\ opt_s' = r.opt_s
                  /\ UNCHANGED <<cfg, RunDir, fastforward, grads, rng, gen_fresh, niter,
                                 bi, batches_since_update, iter_batches, train_loss,
                                 dev_best_metric, h_lines, h_end, h_int_niter>>
    /\ UNCHANGED <<h_launches, h_consumed, h_replayed, h_validated, h_best_iter,
                   h_scored, h_tampered>>
    /\ UNCHANGED nonTrainerVars

\* (mutant) a replay that is not skipped when training is done
replays_when_done(first_iter, c) == first_iter > 0

\* `if initial_iter > 0:` ... `if initial_iter < self.cfg["niters"]:` the replay runs
replays(first_iter, c) == first_iter > 0 /\ first_iter < c.niters

\* train_loss = [] ; if initial_iter > 0: reload the loss history and, unless the
\* run is finished, start the replay; dev_best_metric = -np.inf
Resume ==
    /\ pc = "resume"
    /\ train_loss' = IF initial_iter > 0 THEN load_loss_file(loss_file).loss ELSE <<>>
    /\ dev_best_metric' = NegInf
    /\ IF replays(initial_iter, cfg)
       THEN pc' = "replay" /\ niter' = 0
       ELSE pc' = "loop" /\ niter' = initial_iter
    /\ bi' = 0 /\ gen_fresh' = TRUE
    /\ UNCHANGED <<cfg, RunDir, fastforward, model_w, opt_s, grads, rng, initial_iter,
                   batches_since_update, iter_batches, ff_ret, ff_exc>>
    /\ UNCHANGED historyVars
    /\ UNCHANGED nonTrainerVars

\* one batch of the replay: for niter in range(initial_iter): for bi, batch in
\* enumerate(train_dataloader): if (bi + 1) % batches_per_epoch == 0: break
ReplayBatch ==
    /\ pc = "replay"
    /\ LET d == next_batch(rng, gen_fresh, cfg)
           brk == (bi + 1) % batches_per_epoch(cfg) = 0
       IN /\ rng' = d.rng
          /\ h_replayed' = h_replayed + 1
          /\ IF brk
             THEN /\ bi' = 0 /\ gen_fresh' = TRUE
                  /\ IF niter + 1 < initial_iter
                     THEN pc' = "replay" /\ niter' = niter + 1
                     ELSE pc' = "loop" /\ niter' = initial_iter
             ELSE /\ bi' = bi + 1 /\ gen_fresh' = FALSE
                  /\ pc' = "replay" /\ niter' = niter
    /\ UNCHANGED <<cfg, RunDir, fastforward, model_w, opt_s, grads, initial_iter,
                   batches_since_update, iter_batches, train_loss, dev_best_metric,
                   ff_ret, ff_exc>>
    /\ UNCHANGED <<h_launches, h_lines, h_int_niter, h_consumed,
                   h_validated, h_best_iter, h_scored, h_end, h_tampered>>
    /\ UNCHANGED nonTrainerVars

\* for niter in range(initial_iter, niters): model.train() and the start of
\* single_train_iteration, or the end of train()
LoopHead ==
    /\ pc = "loop"
    /\ IF niter < cfg.niters
       THEN /\ pc' = "train"
            /\ bi' = 0 /\ batches_since_update' = 0 /\ iter_batches' = <<>>
            /\ gen_fresh' = TRUE
            /\ UNCHANGED <<cfg, RunDir, fastforward, model_w, opt_s, grads, rng,
                           initial_iter, niter, train_loss, dev_best_metric,
                           h_lines, h_end, h_int_niter>>
       ELSE /\ ProcessEnds("completed")
            /\ UNCHANGED <<cfg, RunDir>>
    /\ UNCHANGED <<ff_ret, ff_exc>>
    /\ UNCHANGED <<h_launches, h_consumed, h_replayed, h_validated,
                   h_best_iter, h_scored, h_tampered>>
    /\ UNCHANGED nonTrainerVars

\* one batch of single_train_iteration: score, loss, backward, the optimizer step
\* every batches_per_step batches, and the break after batches_per_epoch batches;
\* after the break train() appends the iteration's loss to train_loss
TrainBatch ==
    /\ pc = "train"
    /\ LET d == next_batch(rng, gen_fresh, cfg)
           step == batches_since_update + 1 = batches_per_step(cfg)
           mw == IF step THEN model_w + 1 ELSE model_w
           batches == Append(iter_batches, d.batch)
           brk == (bi + 1) % batches_per_epoch(cfg) = 0
       IN /\ rng' = d.rng
          /\ gen_fresh' = FALSE
          /\ h_scored' = h_scored + 1
          /\ model_w' = mw
          /\ opt_s' = IF step THEN opt_s + 1 ELSE opt_s
          /\ grads' = IF step THEN 0 ELSE grads + 1
          /\ batches_since_update' = IF step THEN 0 ELSE batches_since_update + 1
          /\ iter_batches' = batches
          /\ bi' = bi + 1
          /\ h_consumed' = [h_consumed EXCEPT ![niter] = @ \cup {batches}]
          /\ IF brk
             THEN /\ pc' = "save_weights"
                  /\ train_loss' = Append(train_loss, iteration_loss(mw, batches))
             ELSE /\ pc' = "train"
                  /\ train_loss' = train_loss
    /\ UNCHANGED <<cfg, RunDir, fastforward, initial_iter, niter, dev_best_metric,
                   ff_ret, ff_exc>>
    /\ UNCHANGED <<h_launches, h_lines, h_int_niter, h_replayed,
                   h_validated, h_best_iter, h_end, h_tampered>>
    /\ UNCHANGED nonTrainerVars

\* reranker.save_weights(weights_fn, self.optimizer): the weights file
SaveWeights ==
    /\ pc = "save_weights"
    /\ weights_files' = [weights_files EXCEPT ![niter] = save_weights_file(model_w)]
    /\ pc' = "save_optimizer"
    /\ UNCHANGED <<cfg, weights_dir, loss_file, opt_files, dev_best, dev_best_opt,
                   run_files, fastforward, model_w, opt_s, grads, rng, ProcessLocals,
                   ff_ret, ff_exc>>
    /\ UNCHANGED historyVars
    /\ UNCHANGED nonTrainerVars

\* reranker.save_weights(weights_fn, self.optimizer): the optimizer file
SaveOptimizer ==
    /\ pc = "save_optimizer"
    /\ opt_files' = [opt_files EXCEPT ![niter] = save_optimizer_file(opt_s)]
    /\ pc' = IF niter % cfg.validatefreq = 0 THEN "predict" ELSE "write_loss"
    /\ UNCHANGED <<cfg, weights_dir, loss_file, weights_files, dev_best, dev_best_opt,
                   run_files, fastforward, model_w, opt_s, grads, rng, ProcessLocals,
                   ff_ret, ff_exc>>
    /\ UNCHANGED historyVars
    /\ UNCHANGED nonTrainerVars

\* if metrics[metric] > dev_best_metric
improves(m, best) == m > best

\* self.predict writes the run file, the evaluator returns the metrics, and the
\* target metric is compared with dev_best_metric
Predict ==
    /\ pc = "predict"
    /\ run_files' = run_files \cup {niter}
    /\ \E m \in 0..MaxMetric :
         /\ h_validated' = Append(h_validated, <<niter, m>>)
         /\ pc' = IF improves(m, dev_best_metric) THEN "save_best" ELSE "write_loss"
    /\ UNCHANGED <<cfg, weights_dir, loss_file, weights_files, opt_files, dev_best,
                   dev_best_opt, fastforward, model_w, opt_s, grads, rng,
                   ProcessLocals, ff_ret, ff_exc>>
    /\ UNCHANGED <<h_launches, h_lines, h_int_niter, h_consumed,
                   h_replayed, h_best_iter, h_scored, h_end, h_tampered>>
    /\ UNCHANGED nonTrainerVars

\* reranker.save_weights(dev_best_weight_fn, self.optimizer): the weights file
SaveBest ==
    /\ pc = "save_best"
    /\ dev_best' = save_weights_file(model_w)
    /\ h_best_iter' = niter
    /\ pc' = "save_best_optimizer"
    /\ UNCHANGED <<cfg, weights_dir, loss_file, weights_files, opt_files, dev_best_opt,
                   run_files, fastforward, model_w, opt_s, grads, rng, ProcessLocals,
                   ff_ret, ff_exc>>
    /\ UNCHANGED <<h_launches, h_lines, h_int_niter, h_consumed,
                   h_replayed, h_validated, h_scored, h_end, h_tampered>>
    /\ UNCHANGED nonTrainerVars

\* reranker.save_weights(dev_best_weight_fn, self.optimizer): the optimizer file
SaveBestOptimizer ==
    /\ pc = "save_best_optimizer"
    /\ dev_best_opt' = save_optimizer_file(opt_s)
    /\ pc' = "write_loss"
    /\ UNCHANGED <<cfg, weights_dir, loss_file, weights_files, opt_files, dev_best,
                   run_files, fastforward, model_w, opt_s, grads, rng, ProcessLocals,
                   ff_ret, ff_exc>>
    /\ UNCHANGED historyVars
    /\ UNCHANGED nonTrainerVars

\* loss_fn.write_text(...), and the loop goes on to the next iteration
WriteLoss ==
    /\ pc = "write_loss"
    /\ loss_file' = [exists |-> TRUE, lines |-> loss_lines(train_loss)]
    /\ niter' = niter + 1
    /\ pc' = "loop"
    /\ UNCHANGED <<cfg, weights_dir, weights_files, opt_files, dev_best, dev_best_opt,
                   run_files, fastforward, model_w, opt_s, grads, rng, gen_fresh,
                   initial_iter, bi, batches_since_update, iter_batches, train_loss,
                   dev_best_metric, ff_ret, ff_exc>>
    /\ UNCHANGED <<h_launches, h_lines, h_int_niter, h_consumed, h_replayed,
                   h_validated, h_best_iter, h_scored, h_end, h_tampered>>
    /\ UNCHANGED nonTrainerVars

\* the iteration a running process is in the middle of
InIteration ==
    pc \in {"train", "save_weights", "save_optimizer", "predict", "save_best",
            "save_best_optimizer", "write_loss"}

\* The process is killed between two steps; the run directory stays as it is.
Interrupt ==
    /\ pc \notin {"off", "returned"}
    /\ ProcessEnds("interrupted")
    /\ UNCHANGED <<cfg, RunDir, ff_ret, ff_exc>>
    /\ UNCHANGED <<h_launches, h_consumed, h_replayed, h_validated,
                   h_best_iter, h_scored, h_tampered>>
    /\ UNCHANGED nonTrainerVars

\* The environment: while no process runs, the optimizer file of the last recorded
\* iteration is lost from the run directory (once per behaviour).
LoseCheckpoint ==
    /\ pc = "off"
    /\ ~h_tampered
    /\ loss_file.exists /\ Len(loss_file.lines) >= 1
    /\ LET i == Len(loss_file.lines) - 1
       IN /\ opt_files[i].exists
          /\ opt_files' = [opt_files EXCEPT ![i] = NoFile]
    /\ h_tampered' = TRUE
    /\ UNCHANGED <<cfg, weights_dir, loss_file, weights_files, dev_best, dev_best_opt,
                   run_files, pc, fastforward, model_w, opt_s, grads, rng,
                   ProcessLocals, ff_ret, ff_exc>>
    /\ UNCHANGED <<h_launches, h_lines, h_int_niter, h_consumed, h_replayed,
                   h_validated, h_best_iter, h_scored, h_end>>
    /\ UNCHANGED nonTrainerVars

----------------------------------------------------------------------------
(* Initial states *)

ProcessOff ==
    /\ pc = "off" /\ fastforward = FALSE
    /\ model_w = 0 /\ opt_s = 0 /\ grads = 0 /\ rng = 0 /\ gen_fresh = TRUE
    /\ initial_iter = 0 /\ niter = 0 /\ bi = 0 /\ batches_since_update = 0
    /\ iter_batches = <<>> /\ train_loss = <<>> /\ dev_best_metric = NegInf
    /\ ff_ret = 0 /\ ff_exc = "none"

NoHistory ==
    /\ h_launches = <<>> /\ h_lines = 0 /\ h_end = "none"
    /\ h_int_niter = 0
    /\ h_consumed = [i \in Iters |-> {}]
    /\ h_replayed = 0 /\ h_validated = <<>> /\ h_scored = 0
    /\ h_best_iter = -1 /\ h_tampered = FALSE

EmptyRunDir ==
    /\ weights_dir = FALSE
    /\ loss_file = NoLossFile
    /\ weights_files = [i \in Iters |-> NoFile]
    /\ opt_files = [i \in Iters |-> NoFile]
    /\ dev_best = NoFile /\ dev_best_opt = NoFile
    /\ run_files = {}

SamplerIdle ==
    /\ qid_to_docids = <<>> /\ qid_to_reldocs = <<>> /\ qid_to_negdocs = <<>>
    /\ total_samples = 0
    /\ s_input = <<>>
    /\ s_state = "new"

ConfigIdle ==
    /\ t_kind = "pytorch" /\ t_cfg = <<>> /\ t_state = "new"
    /\ t_drawn = 0 /\ t_written = 0

GenIdle ==
    /\ g_kind = "triplet" /\ g_missing = {}
    /\ g_pc = "idle" /\ g_order = <<>> /\ g_qi = 0
    /\ g_phase = "rel" /\ g_di = 0
    /\ g_round = <<>> /\ g_event = "none"

\* get_hash() not called yet
NoHash == [tag |-> "none", key |-> <<>>]

HashIdle ==
    /\ k_a = <<>> /\ k_b = <<>>
    /\ k_hash_a = NoHash /\ k_hash_b = NoHash

PassageIdle ==
    /\ p_doc = <<>> /\ p_cfg = <<>>
    /\ p_pc = "new" /\ p_passages = <<>> /\ p_exc = "none"

VecIdle ==
    /\ v_qtoks = <<>> /\ v_pos = <<>> /\ v_neg = <<>> /\ v_cfg = <<>>
    /\ v_pc = "new" /\ v_data = <<>>

CkptIdle ==
    /\ cb_kind = "pytorch" /\ cb_epoch = 0 /\ cb_best_metric = NegInf
    /\ cb_weights = [i \in Iters |-> NoFile] /\ cb_dev_best = NoFile

RecordIdle ==
    /\ r_mode = "train" /\ r_cfg = <<>> /\ r_sample = <<>>
    /\ r_pc = "new" /\ r_features = <<>> /\ r_parsed = <<>> /\ r_exc = "none"

StreamsIdle ==
    /\ x_rng = 0 /\ x_a = <<>> /\ x_b_seed = seed /\ x_b = "none" /\ x_b_drawn = 0

\* no feature built, no checkpoint written, no record serialized, no second stream
PipelineIdle == VecIdle /\ CkptIdle /\ RecordIdle /\ StreamsIdle

\* no sampler hashed, no document cut into passages, no feature built
ExtractorIdle == HashIdle /\ PassageIdle /\ PipelineIdle

\* A training run on an empty run directory
Init ==
    /\ cfg \in TrainCfgs
    /\ EmptyRunDir
    /\ ProcessOff
    /\ NoHistory
    /\ SamplerIdle
    /\ ConfigIdle
    /\ GenIdle
    /\ ExtractorIdle

Next ==
    \/ Launch
    \/ FastForward
    \/ Resume
    \/ ReplayBatch
    \/ LoopHead
    \/ TrainBatch
    \/ SaveWeights
    \/ SaveOptimizer
    \/ Predict
    \/ SaveBest
    \/ SaveBestOptimizer
    \/ WriteLoss
    \/ Interrupt
    \/ LoseCheckpoint

Spec == Init /\ [][Next]_vars

----------------------------------------------------------------------------
(* Properties of a training run on its run directory (Spec) *)

\* the metric validated last, and the metrics validated before it in this launch
LastMetric == h_validated[Len(h_validated)][2]
EarlierMetrics == {h_validated[k][2] : k \in 1..(Len(h_validated) - 1)}

\* the first validated iteration that attains the maximum metric
FirstBestIter ==
    LET best == CHOOSE k \in 1..Len(h_validated) :
                    /\ \A j \in 1..Len(h_validated) : h_validated[j][2] <= h_validated[k][2]
                    /\ \A j \in 1..(k - 1) : h_validated[j][2] < h_validated[k][2]
    IN h_validated[best][1]

\* C4: dev.best is written at a validated iteration only if its metric is
\* strictly greater than the metric of every iteration validated before it, so
\* that a completed run leaves in dev.best the weights of the first validated
\* iteration that attains the maximum.
C4_BestCheckpointRule ==
    /\ pc = "save_best" => \A m \in EarlierMetrics : m < LastMetric
    /\ (pc = "off" /\ h_end = "completed" /\ Len(h_launches) = 1 /\ h_validated # <<>>)
       => h_best_iter = FirstBestIter

\* every launch after the first had fastforward enabled, on a directory that only
\* the trainer wrote
ResumedRun ==
    /\ Len(h_launches) >= 2
    /\ \A k \in 2..Len(h_launches) : h_launches[k]
    /\ ~h_tampered

\* C5: a run started on an empty directory, interrupted anywhere and restarted
\* with fastforward resumes at iteration n, the number of loss lines written
\* before the interruption, with the weights and optimizer state saved by
\* iteration n-1; no iteration below n is executed again, and n is not below
\* the iteration that was interrupted.
C5_DurabilityUnit ==
    ResumedRun =>
        /\ pc \notin {"off", "fastforward"} =>
               /\ initial_iter = h_lines
               /\ initial_iter >= h_int_niter
        /\ (pc = "resume" /\ initial_iter > 0) =>
               /\ model_w = weights_files[initial_iter - 1].w
               /\ opt_s = opt_files[initial_iter - 1].w
               /\ weights_files[initial_iter - 1].exists
               /\ opt_files[initial_iter - 1].exists
        /\ (pc = "loop" \/ InIteration) => niter >= initial_iter

C5_Witness ==
    /\ ResumedRun
    /\ Len(h_launches) = 2
    /\ h_end = "interrupted"
    /\ h_lines = 1 /\ h_int_niter = 1
    /\ pc = "train" /\ initial_iter = 1 /\ niter = 1 /\ bi = 1
    /\ model_w > 0

\* the launch resumed in the middle of the run
ResumedMidRun == initial_iter > 0 /\ initial_iter < cfg.niters

\* C6 (state part): whatever launch executes iteration i, resumed or not, it
\* consumes the same batches at i; and the replay of a run resumed at k has
\* drawn k * (itersize // batch) batches when the loop starts.
C6_SameBatches ==
    /\ \A i \in Iters : \A a, b \in h_consumed[i] : Len(a) = Len(b) => a = b
    /\ ((pc = "loop" \/ InIteration) /\ ResumedMidRun)
       => h_replayed = initial_iter * batches_per_epoch(cfg)

\* C6 (step part): a step of the replay scores nothing, changes neither the
\* model nor the optimizer nor the gradients, and writes no file.
C6_ReplayStep ==
    (pc = "replay" /\ pc' # "off")
    => /\ model_w' = model_w /\ opt_s' = opt_s /\ grads' = grads
       /\ h_scored' = h_scored
       /\ RunDir' = RunDir
       /\ train_loss' = train_loss

\* C6: a run resumed at iteration k consumes at k, k+1, ... the batches an
\* uninterrupted run consumes there, and its replay of k * (itersize // batch)
\* batches has no effect on model, optimizer or files.
C6_ResumeMatchesStream == []C6_SameBatches /\ [][C6_ReplayStep]_vars

\* a launch resumed at iteration 1 has replayed one iteration of two batches and
\* consumed the first batch of iteration 1, which an earlier launch that started
\* at iteration 0 had trained and saved before it was interrupted
C6_Witness ==
    /\ Len(h_launches) >= 2
    /\ fastforward /\ ~h_tampered
    /\ initial_iter = 1 /\ pc = "train" /\ niter = 1 /\ bi = 1
    /\ batches_per_epoch(cfg) = 2
    /\ h_replayed = 2
    /\ weights_files[1].exists
    /\ \E b \in h_consumed[1] : Len(b) = 1

\* C7: whenever info/loss.txt exists its i-th line carries index i, the file is
\* accepted by load_loss_file, and right after iteration i completes it has
\* exactly i+1 lines.
C7_LossHistoryWellFormed ==
    /\ loss_file.exists =>
          /\ \A i \in 1..Len(loss_file.lines) :
                 /\ Len(loss_file.lines[i]) = 2
                 /\ loss_file.lines[i][1] = IntTok(i - 1)
          /\ load_loss_file(loss_file).exc = "none"
          /\ Len(load_loss_file(loss_file).loss) = Len(loss_file.lines)
    /\ (pc = "loop" /\ niter > initial_iter) =>
          /\ loss_file.exists
          /\ Len(loss_file.lines) = niter

\* a resume that failed (the optimizer file was lost) restarted at iteration 0
\* and has just rewritten a longer loss file with its first line
C7_Witness ==
    /\ h_tampered /\ fastforward
    /\ h_lines >= 2 /\ ff_ret = 0
    /\ pc = "loop" /\ niter = 1
    /\ Len(loss_file.lines) = 1

----------------------------------------------------------------------------
(* Fast-forward on a run directory found on disk: fastforward_training is   *)
(* called by train() at launch, or directly, on whatever the directory      *)
(* holds.                                                                   *)

\* lines a loss file found on disk may hold: "<idx> 1.0", a blank line,
\* "0", "0 abc", "0.0 1.0"
FFLines ==
    {<<IntTok(i), FloatTok(1)>> : i \in 0..(MaxLines - 1)}
    \cup {<<>>, <<IntTok(0)>>, <<IntTok(0), JunkTok>>, <<FloatTok(0), FloatTok(1)>>}

RECURSIVE SeqsUpTo(_, _)
SeqsUpTo(S, n) ==
    IF n = 0 THEN {<<>>}
    ELSE LET shorter == SeqsUpTo(S, n - 1)
         IN shorter \cup {Append(q, x) : q \in shorter, x \in S}

FFLossFiles ==
    {NoLossFile} \cup {[exists |-> TRUE, lines |-> ls] : ls \in SeqsUpTo(FFLines, MaxLines)}

\* a weights file found on disk: missing, not unpicklable, as save_weights wrote
\* it, written by a model lacking a key, written by a model with one more key
FFWeightFiles ==
    {NoFile,
     [exists |-> TRUE, ok |-> FALSE, keys |-> {}, w |-> 0],
     [exists |-> TRUE, ok |-> TRUE, keys |-> persisted_keys, w |-> 7],
     [exists |-> TRUE, ok |-> TRUE, keys |-> persisted_keys \ {"out.bias"}, w |-> 7],
     [exists |-> TRUE, ok |-> TRUE, keys |-> persisted_keys \cup {"extra.weight"}, w |-> 7]}

FFOptFiles ==
    {NoFile,
     [exists |-> TRUE, ok |-> FALSE, keys |-> {}, w |-> 0],
     [exists |-> TRUE, ok |-> TRUE, keys |-> {}, w |-> 5]}

InitFF ==
    /\ cfg = [batch |-> 1, itersize |-> 2, niters |-> MaxIters,
              gradacc |-> GradAcc(1, 1), lr |-> 1, validatefreq |-> 1]
    /\ weights_dir \in BOOLEAN
    /\ loss_file \in FFLossFiles
    /\ \E j \in Iters, wf \in FFWeightFiles, of \in FFOptFiles :
         /\ weights_dir \/ (wf = NoFile /\ of = NoFile)
         /\ weights_files = [i \in Iters |-> IF i = j THEN wf ELSE NoFile]
         /\ opt_files = [i \in Iters |-> IF i = j THEN of ELSE NoFile]
    /\ dev_best = NoFile /\ dev_best_opt = NoFile
    /\ run_files = {}
    /\ ProcessOff
    /\ NoHistory
    /\ SamplerIdle
    /\ ConfigIdle
    /\ GenIdle
    /\ ExtractorIdle

\* trainer.fastforward_training(reranker, weights_path, loss_fn) called directly,
\* with a fresh model and optimizer; an exception goes to the caller
CallFastforward ==
    /\ pc = "off"
    /\ h_launches = <<>>
    /\ LET r == fastforward_training(weights_dir, loss_file, weights_files,
                                     opt_files, model_w, opt_s)
       IN /\ ff_ret' = r.ret
          /\ ff_exc' = r.exc
          /\ model_w' = r.model_w
          /\ opt_s' = r.opt_s
    /\ pc' = "returned"
    /\ UNCHANGED <<cfg, RunDir, fastforward, grads, rng, ProcessLocals>>
    /\ UNCHANGED historyVars
    /\ UNCHANGED nonTrainerVars

NextFF ==
    \/ CallFastforward
    \/ Launch
    \/ FastForward
    \/ Resume
    \/ ReplayBatch

SpecFF == InitFF /\ [][NextFF]_vars

\* fastforward_training has just returned (or raised)
FFReturned ==
    \/ pc = "returned"
    \/ pc = "resume" /\ fastforward
    \/ pc = "off" /\ h_end = "crashed"

\* every line is "<its 0-based position> <a float>"
WellFormedLines(lines) ==
    \A i \in 1..Len(lines) :
        /\ Len(lines[i]) = 2
        /\ lines[i][1] = IntTok(i - 1)
        /\ lines[i][2].k = "float"

\* some non-blank line is not "<its 0-based position> <a float>"
MalformedLines(lines) ==
    \E i \in 1..Len(lines) :
        /\ Len(lines[i]) # 0
        /\ \/ Len(lines[i]) # 2
           \/ lines[i][1].k # "int"
           \/ lines[i][1].v # i - 1
           \/ lines[i][2].k \notin {"int", "float"}

\* the checkpoint of iteration i can be loaded into the current model
Loadable(i) ==
    /\ i \in Iters
    /\ weights_files[i].exists /\ weights_files[i].ok
    /\ cur_keys \subseteq weights_files[i].keys
    /\ opt_files[i].exists /\ opt_files[i].ok

\* C1: with well-formed loss lines 0..n-1 (n >= 1) and a loadable checkpoint of
\* iteration n-1, fastforward_training returns n and has loaded that checkpoint's
\* weights and optimizer state.
C1_FastForwardSuccess ==
    (/\ FFReturned
     /\ weights_dir /\ loss_file.exists
     /\ Len(loss_file.lines) >= 1
     /\ WellFormedLines(loss_file.lines)
     /\ Loadable(Len(loss_file.lines) - 1))
    => /\ ff_ret = Len(loss_file.lines)
       /\ ff_exc = "none"
       /\ model_w = weights_files[Len(loss_file.lines) - 1].w
       /\ opt_s = opt_files[Len(loss_file.lines) - 1].w

C1_Witness ==
    /\ pc = "returned"
    /\ Len(loss_file.lines) = 2
    /\ WellFormedLines(loss_file.lines)
    /\ Loadable(1)
    /\ ff_ret = 2 /\ model_w = 7 /\ opt_s = 5

\* C2: on a missing weights directory, a missing loss file or a malformed loss
\* file, fastforward_training returns 0, raises nothing and loads nothing.
C2_BadHistoryReturnsZero ==
    (/\ FFReturned
     /\ \/ ~weights_dir
        \/ ~loss_file.exists
        \/ MalformedLines(loss_file.lines))
    => /\ ff_ret = 0
       /\ ff_exc = "none"
       /\ model_w = 0 /\ opt_s = 0

\* C3: when fastforward_training returns 0 because the checkpoint of the last
\* recorded iteration could not be loaded, the model and the optimizer are the
\* freshly initialised ones and train() starts with an empty loss history.
C3_FailedLoadIsColdStart ==
    (/\ pc \in {"resume", "loop"}
     /\ fastforward
     /\ weights_dir /\ loss_file.exists
     /\ WellFormedLines(loss_file.lines)
     /\ ff_ret = 0 /\ ff_exc = "none")
    => /\ model_w = 0 /\ opt_s = 0
       /\ pc = "loop" => train_loss = <<>>

----------------------------------------------------------------------------
(* Sampler.prepare and Sampler.clean (SpecSampler): a sampler is prepared   *)
(* on candidates {qid: [docid]} and qrels {qid: {docid: label}}, and then   *)
(* cleaned again any number of times.                                       *)

MaxCand == 2                       \* longest candidate list of a query

Qids == {"q1", "q2"}
PoolDocs == {"d1", "d2"}           \* documents that candidate lists hold
JudgedDocs == PoolDocs \cup {"d9"} \* "d9" is judged, and never a candidate
Labels == {0, 1, 2}
RelevanceLevels == {1, 2}

\* a dict: a function on the set of its keys
Dicts(keys, values) == UNION {[ks -> values] : ks \in SUBSET keys}

CandidateLists == UNION {[1..n -> PoolDocs] : n \in 0..MaxCand}
\* the judgments of one query; the judged-only document, when there, is relevant
QueryQrels == {j \in Dicts(JudgedDocs, Labels) : "d9" \in DOMAIN j => j["d9"] = 2}

SamplerInputs ==
    [qid_to_docids : Dicts(Qids, CandidateLists),
     qrels : Dicts(Qids, QueryQrels),
     relevance_level : RelevanceLevels]

\* qrels[qid].get(docid, 0)
label_of(qrels_q, docid) == IF docid \in DOMAIN qrels_q THEN qrels_q[docid] ELSE 0

\* mutant of reldocs: a document is relevant only above the threshold
reldocs_above(docids, qrels_q, relevance_level) ==
    SelectSeq(docids, LAMBDA docid : label_of(qrels_q, docid) > relevance_level)

\* [docid for docid in docids if qrels[qid].get(docid, 0) >= relevance_level]
reldocs(docids, qrels_q, relevance_level) ==
    SelectSeq(docids, LAMBDA docid : label_of(qrels_q, docid) >= relevance_level)

\* [docid for docid in docids if qrels[qid].get(docid, 0) < relevance_level]
negdocs(docids, qrels_q, relevance_level) ==
    SelectSeq(docids, LAMBDA docid : label_of(qrels_q, docid) < relevance_level)

\* mutant of removed_by_clean: a query goes only when it has neither kind
removed_when_both_empty(posdocs, negdocs_n) == posdocs = 0 /\ negdocs_n = 0

\* clean: `if posdocs == 0 or negdocs == 0`
removed_by_clean(posdocs, negdocs_n) == posdocs = 0 \/ negdocs_n = 0

RECURSIVE SumOver(_, _)
SumOver(f, keys) ==
    IF keys = {} THEN 0
    ELSE LET k == CHOOSE x \in keys : TRUE
         IN f[k] + SumOver(f, keys \ {k})

\* (mutant) clean that counts the training triples from 0
clean_from_zero(docids, rel, neg) ==
    LET qids == DOMAIN docids
        kept == {qid \in qids : ~removed_by_clean(Len(rel[qid]), Len(neg[qid]))}
        pairs == [qid \in qids |-> Len(rel[qid]) * Len(neg[qid])]
    IN [qid_to_docids |-> [qid \in kept |-> docids[qid]],
        qid_to_reldocs |-> [qid \in (DOMAIN rel) \ (qids \ kept) |-> rel[qid]],
        qid_to_negdocs |-> [qid \in (DOMAIN neg) \ (qids \ kept) |-> neg[qid]],
        total_samples |-> SumOver(pairs, qids)]

\* Sampler.clean on the three mappings: what is left of them, and total_samples
clean(docids, rel, neg) ==
    LET qids == DOMAIN docids
        kept == {qid \in qids : ~removed_by_clean(Len(rel[qid]), Len(neg[qid]))}
        pairs == [qid \in qids |-> Len(rel[qid]) * Len(neg[qid])]
    IN [qid_to_docids |-> [qid \in kept |-> docids[qid]],
        qid_to_reldocs |-> [qid \in (DOMAIN rel) \ (qids \ kept) |-> rel[qid]],
        qid_to_negdocs |-> [qid \in (DOMAIN neg) \ (qids \ kept) |-> neg[qid]],
        total_samples |-> 1 + SumOver(pairs, qids)]

\* sampler.prepare(qid_to_docids, qrels, extractor, relevance_level)
Prepare ==
    /\ s_state = "new"
    /\ LET in_qrels == (DOMAIN s_input.qid_to_docids) \cap (DOMAIN s_input.qrels)
           docids == [qid \in in_qrels |-> s_input.qid_to_docids[qid]]
           rel == [qid \in in_qrels |->
                      reldocs(docids[qid], s_input.qrels[qid], s_input.relevance_level)]
           neg == [qid \in in_qrels |->
                      negdocs(docids[qid], s_input.qrels[qid], s_input.relevance_level)]
           c == clean(docids, rel, neg)
       IN /\ qid_to_docids' = c.qid_to_docids
          /\ qid_to_reldocs' = c.qid_to_reldocs
          /\ qid_to_negdocs' = c.qid_to_negdocs
          /\ total_samples' = c.total_samples
    /\ s_state' = "prepared"
    /\ UNCHANGED s_input
    /\ UNCHANGED nonSamplerVars

\* sampler.clean() called again on a prepared sampler
Clean ==
    /\ s_state \in {"prepared", "cleaned"}
    /\ LET c == clean(qid_to_docids, qid_to_reldocs, qid_to_negdocs)
       IN /\ qid_to_docids' = c.qid_to_docids
          /\ qid_to_reldocs' = c.qid_to_reldocs
          /\ qid_to_negdocs' = c.qid_to_negdocs
          /\ total_samples' = c.total_samples
    /\ s_state' = "cleaned"
    /\ UNCHANGED s_input
    /\ UNCHANGED nonSamplerVars

InitSampler ==
    /\ cfg = [batch |-> 1, itersize |-> 2, niters |-> MaxIters,
              gradacc |-> GradAcc(1, 1), lr |-> 1, validatefreq |-> 1]
    /\ EmptyRunDir
    /\ ProcessOff
    /\ NoHistory
    /\ s_input \in SamplerInputs
    /\ qid_to_docids = <<>> /\ qid_to_reldocs = <<>> /\ qid_to_negdocs = <<>>
    /\ total_samples = 0
    /\ s_state = "new"
    /\ ConfigIdle
    /\ GenIdle
    /\ ExtractorIdle

NextSampler ==
    \/ Prepare
    \/ Clean

SpecSampler == InitSampler /\ [][NextSampler]_vars

\* the number of places of a list that hold a document of the given set
Count(docids, among) == Cardinality({i \in 1..Len(docids) : docids[i] \in among})

\* the candidates of a query whose label, 0 when unjudged, is at least the level
RelevantCandidates(qid) ==
    {d \in JudgedDocs : label_of(s_input.qrels[qid], d) >= s_input.relevance_level}

\* C9: after prepare() and after any further clean(), every query the sampler
\* still holds has at least one relevant and one non-relevant candidate, the
\* three mappings hold the same queries, and a query whose candidates are all
\* relevant or all non-relevant is in none of them.
C9_CleaningInvariant ==
    s_state \in {"prepared", "cleaned"} =>
        /\ DOMAIN qid_to_reldocs = DOMAIN qid_to_docids
        /\ DOMAIN qid_to_negdocs = DOMAIN qid_to_docids
        /\ \A qid \in DOMAIN qid_to_docids :
              Len(qid_to_reldocs[qid]) >= 1 /\ Len(qid_to_negdocs[qid]) >= 1
        /\ \A qid \in (DOMAIN s_input.qid_to_docids) \cap (DOMAIN s_input.qrels) :
              LET cand == s_input.qid_to_docids[qid]
                  nrel == Count(cand, RelevantCandidates(qid))
              IN (nrel = 0 \/ nrel = Len(cand)) =>
                     /\ qid \notin DOMAIN qid_to_docids
                     /\ qid \notin DOMAIN qid_to_reldocs
                     /\ qid \notin DOMAIN qid_to_negdocs

\* cleaned twice: q1 had only relevant candidates and is gone, q2 is kept
C9_Witness ==
    /\ s_state = "cleaned"
    /\ DOMAIN s_input.qid_to_docids = Qids
    /\ DOMAIN s_input.qrels = Qids
    /\ Len(s_input.qid_to_docids["q1"]) = 2
    /\ Count(s_input.qid_to_docids["q1"], RelevantCandidates("q1")) = 2
    /\ DOMAIN qid_to_docids = {"q2"}

\* the distinct (query, positive, negative) triples the triplet sampler can yield
DistinctTriples ==
    {t \in Qids \X PoolDocs \X PoolDocs :
        /\ t[1] \in DOMAIN qid_to_reldocs
        /\ Count(qid_to_reldocs[t[1]], {t[2]}) > 0
        /\ Count(qid_to_negdocs[t[1]], {t[3]}) > 0}

C10_RelevanceClassification ==
    s_state = "prepared" =>
        /\ DOMAIN qid_to_docids \subseteq DOMAIN s_input.qid_to_docids
        /\ \A qid \in DOMAIN s_input.qid_to_docids :
              qid \in DOMAIN qid_to_docids <=>
                  /\ qid \in DOMAIN s_input.qrels
                  /\ LET cand == s_input.qid_to_docids[qid]
                         nrel == Count(cand, RelevantCandidates(qid))
                     IN 0 < nrel /\ nrel < Len(cand)
        /\ \A qid \in DOMAIN qid_to_docids :
              qid_to_docids[qid] = s_input.qid_to_docids[qid]
        /\ \A qid \in DOMAIN qid_to_docids :
              LET cand == qid_to_docids[qid]
                  rel == qid_to_reldocs[qid]
                  neg == qid_to_negdocs[qid]
              IN /\ Len(rel) + Len(neg) = Len(cand)
                 /\ \A d \in JudgedDocs :
                       /\ Count(rel, {d}) =
                             IF d \in RelevantCandidates(qid) THEN Count(cand, {d}) ELSE 0
                       /\ Count(neg, {d}) =
                             IF d \in RelevantCandidates(qid) THEN 0 ELSE Count(cand, {d})

\* q1 is a candidate query that qrels lacks; q2 is kept with an unjudged
\* candidate d1, a candidate d2 judged exactly at the level, and a judged d9
\* that is not a candidate
C10_Witness ==
    /\ s_state = "prepared"
    /\ DOMAIN s_input.qid_to_docids = Qids
    /\ DOMAIN s_input.qrels = {"q2"}
    /\ s_input.qid_to_docids["q2"] = <<"d1", "d2">>
    /\ DOMAIN s_input.qrels["q2"] = {"d2", "d9"}
    /\ s_input.qrels["q2"]["d2"] = s_input.relevance_level
    /\ DOMAIN qid_to_docids = {"q2"}
    /\ qid_to_reldocs["q2"] = <<"d2">>
    /\ qid_to_negdocs["q2"] = <<"d1">>

----------------------------------------------------------------------------
(* Trainer construction (SpecConfig): a trainer of either variant is built  *)
(* from a configuration, accepted or not, and then asked to train.          *)

ConfigGcsbuckets == {"None", "gs://bucket", "bucket"}

\* lr is a float in the code; only its sign matters to the checks
TrainerConfigs ==
    [batch : {0, 1, 2}, niters : {0, 1, 2}, itersize : {1, 2},
     gradacc : {GradAcc(0, 1), GradAcc(1, 1), GradAcc(3, 2), GradAcc(2, 1)},
     lr : {-1, 0, 1}, validatefreq : {1}, gcsbucket : ConfigGcsbuckets]

\* TensorFlowTrainer.validate with no TPU resolved (self.tpu is None)
validate(c) == ~(c.gcsbucket # "None" /\ c.gcsbucket # "gs://bucket")

\* the samples convert_to_tf_train_record draws from the dataset: in each of
\* the niters passes it breaks once sample_idx + 1 >= itersize * batch
tf_samples_drawn(c) ==
    c.niters * (IF c.itersize * c.batch < 1 THEN 1 ELSE c.itersize * c.batch)

\* the trainer module is built: its config() runs, and for tensorflow __init__
\* ends with validate()
Construct ==
    /\ t_state = "new"
    /\ t_state' = IF t_kind = "pytorch"
                  THEN (IF config_ok(t_cfg) THEN "constructed" ELSE "rejected")
                  ELSE (IF validate(t_cfg) THEN "constructed" ELSE "rejected")
    /\ UNCHANGED <<t_kind, t_cfg, t_drawn, t_written>>
    /\ UNCHANGED nonConfigVars

\* PytorchTrainer.train from an empty directory, as a whole: the samples its
\* batches hold and the weight files it saves
TrainPytorch ==
    /\ t_kind = "pytorch" /\ t_state = "constructed"
    /\ t_drawn' = t_cfg.niters * batches_per_epoch(t_cfg) * t_cfg.batch
    /\ t_written' = t_cfg.niters
    /\ t_state' = "trained"
    /\ UNCHANGED <<t_kind, t_cfg>>
    /\ UNCHANGED nonConfigVars

\* TensorFlowTrainer.train up to get_tf_train_records (usecache is False):
\* convert_to_tf_train_record draws the samples and writes one tfrecord file when
\* it has any feature
TrainTensorflow ==
    /\ t_kind = "tensorflow" /\ t_state = "constructed"
    /\ t_drawn' = tf_samples_drawn(t_cfg)
    /\ t_written' = IF tf_samples_drawn(t_cfg) > 0 THEN 1 ELSE 0
    /\ t_state' = "trained"
    /\ UNCHANGED <<t_kind, t_cfg>>
    /\ UNCHANGED nonConfigVars

InitConfig ==
    /\ cfg = [batch |-> 1, itersize |-> 2, niters |-> MaxIters,
              gradacc |-> GradAcc(1, 1), lr |-> 1, validatefreq |-> 1]
    /\ EmptyRunDir
    /\ ProcessOff
    /\ NoHistory
    /\ SamplerIdle
    /\ t_kind \in {"pytorch", "tensorflow"}
    /\ t_cfg \in TrainerConfigs
    /\ t_kind = "pytorch" => t_cfg.gcsbucket = "None"
    /\ t_state = "new"
    /\ t_drawn = 0 /\ t_written = 0
    /\ GenIdle
    /\ ExtractorIdle

NextConfig ==
    \/ Construct
    \/ TrainPytorch
    \/ TrainTensorflow

SpecConfig == InitConfig /\ [][NextConfig]_vars

\* C8: a trainer of either variant whose configuration has batch < 1,
\* niters <= 0, itersize < batch, gradacc not an integer >= 1 or lr <= 0 is
\* rejected when it is built, and neither draws a sample nor writes a file.
C8_ConfigValidation ==
    (t_state # "new" /\ ~config_ok(t_cfg)) =>
        /\ t_state = "rejected"
        /\ t_drawn = 0
        /\ t_written = 0

----------------------------------------------------------------------------
(* The sample streams (SpecGen): generate_samples of TrainTripletSampler,   *)
(* TrainPairSampler and PredSampler over a prepared sampler, one id2vec     *)
(* call per step. What random.shuffle and random.choice return is any of    *)
(* the values they can return.                                              *)

MaxGenCand == 3                    \* longest candidate list of a streamed query

SamplerKinds == {"triplet", "pair", "pred"}

GenCandidateLists == UNION {[1..n -> PoolDocs] : n \in 0..MaxGenCand}
GenInputs ==
    [qid_to_docids : Dicts(Qids, GenCandidateLists),
     qrels : Dicts(Qids, [PoolDocs -> {0, 1}]),
     relevance_level : {1}]

\* (mutant) a shuffle that may repeat a query and lose another
random_shuffle_repeating(qids) == [1..Cardinality(qids) -> qids]

\* random.shuffle(all_qids): the orders it can leave all_qids in
random_shuffle(qids) ==
    {o \in [1..Cardinality(qids) -> qids] : \A qid \in qids : \E i \in DOMAIN o : o[i] = qid}

\* random.choice(docids): the elements it can return
random_choice(docids) == {docids[i] : i \in DOMAIN docids}

\* BertPassage.id2vec raises MissingDocError: a negative is asked for and it has
\* no passage
id2vec_missing(missing, negid) == negid # "None" /\ negid \in missing

\* (mutant) pair labels the other way round
pair_label_swapped(phase) == IF phase = "rel" THEN <<1, 0>> ELSE <<0, 1>>

\* TrainPairSampler.generate_samples: the label of a doc of either list
pair_label(phase) == IF phase = "rel" THEN <<0, 1>> ELSE <<1, 0>>

\* (mutant) a stream whose except clause catches nothing
triplet_catches_nothing(exc) == FALSE

\* TrainTripletSampler.generate_samples: `except MissingDocError`
triplet_catches(exc) == exc = "MissingDocError"

\* PredSampler.generate_samples: the label of a candidate
pred_label(docid, rel) == IF docid \in random_choice(rel) THEN <<0, 1>> ELSE <<1, 0>>

\* one id2vec call and whether its result was yielded
Call(qid, posid, negid, label, yielded) ==
    [qid |-> qid, posid |-> posid, negid |-> negid, label |-> label, yielded |-> yielded]

\* iter(sampler): the generator runs up to its loop
GenStart ==
    /\ g_pc = "idle"
    /\ s_state # "new"
    /\ IF g_kind = "pred"
       THEN /\ g_order' \in random_shuffle(DOMAIN qid_to_docids)
            /\ g_qi' = 1
            /\ g_pc' = "draw"
       ELSE /\ g_pc' = IF DOMAIN qid_to_reldocs = {} THEN "raised" ELSE "shuffle"
            /\ UNCHANGED <<g_order, g_qi>>
    /\ UNCHANGED <<g_kind, g_missing, g_phase, g_di, g_round, g_event>>
    /\ UNCHANGED nonGenVars

\* `while True: random.shuffle(all_qids)`: a round begins
Shuffle ==
    /\ g_pc = "shuffle"
    /\ g_order' \in random_shuffle(DOMAIN qid_to_reldocs)
    /\ g_qi' = 1 /\ g_di' = 0 /\ g_phase' = "rel"
    /\ g_round' = <<>>
    /\ g_event' = "none"
    /\ g_pc' = "draw"
    /\ UNCHANGED <<g_kind, g_missing>>
    /\ UNCHANGED nonGenVars

\* the position after the query at hand: the next query, or the next round
NextQuery ==
    IF g_qi = Len(g_order)
    THEN g_pc' = "shuffle" /\ g_qi' = g_qi
    ELSE g_pc' = "draw" /\ g_qi' = g_qi + 1

\* TrainTripletSampler.generate_samples: the body of `for qid in all_qids`
DrawTriplet ==
    /\ g_kind = "triplet" /\ g_pc = "draw"
    /\ LET qid == g_order[g_qi]
       IN IF qid_to_reldocs[qid] = <<>> \/ qid_to_negdocs[qid] = <<>>
          THEN /\ g_pc' = "raised"         \* random.choice of an empty list
               /\ UNCHANGED <<g_qi, g_round, g_event>>
          ELSE \E posdocid \in random_choice(qid_to_reldocs[qid]),
                  negdocid \in random_choice(qid_to_negdocs[qid]) :
                  LET missing == id2vec_missing(g_missing, negdocid)
                  IN /\ g_round' = Append(g_round,
                                      Call(qid, posdocid, negdocid, <<1, 0>>, ~missing))
                     /\ IF missing /\ ~triplet_catches("MissingDocError")
                        THEN g_pc' = "raised" /\ UNCHANGED <<g_qi, g_event>>
                        ELSE /\ g_event' = IF missing THEN "skip" ELSE "yield"
                             /\ NextQuery
    /\ UNCHANGED <<g_kind, g_missing, g_order, g_phase, g_di>>
    /\ UNCHANGED nonGenVars

\* TrainPairSampler.generate_samples: one step of the two loops over the docs of
\* the query at hand
DrawPair ==
    /\ g_kind = "pair" /\ g_pc = "draw"
    /\ LET qid == g_order[g_qi]
           docids == IF g_phase = "rel" THEN qid_to_reldocs[qid] ELSE qid_to_negdocs[qid]
       IN IF g_di < Len(docids)
          THEN /\ g_round' = Append(g_round,
                                Call(qid, docids[g_di + 1], "None", pair_label(g_phase), TRUE))
               /\ g_event' = "yield"
               /\ g_di' = g_di + 1
               /\ UNCHANGED <<g_pc, g_qi, g_phase>>
          ELSE IF g_phase = "rel"
          THEN /\ g_phase' = "neg" /\ g_di' = 0
               /\ g_event' = "none"
               /\ UNCHANGED <<g_pc, g_qi, g_round>>
          ELSE /\ g_phase' = "rel" /\ g_di' = 0
               /\ g_event' = "none"
               /\ NextQuery
               /\ UNCHANGED g_round
    /\ UNCHANGED <<g_kind, g_missing, g_order>>
    /\ UNCHANGED nonGenVars

\* PredSampler.generate_samples: one step of the loops over qid_to_docids
PredNext ==
    /\ g_kind = "pred" /\ g_pc = "draw"
    /\ IF g_qi > Len(g_order)
       THEN /\ g_pc' = "done"
            /\ g_event' = "none"
            /\ UNCHANGED <<g_qi, g_di, g_round>>
       ELSE LET qid == g_order[g_qi]
                docids == qid_to_docids[qid]
            IN IF g_di < Len(docids)
               THEN LET docid == docids[g_di + 1]
                        missing == id2vec_missing(g_missing, "None")
                    IN /\ g_round' = Append(g_round,
                                        Call(qid, docid, "None",
                                             pred_label(docid, qid_to_reldocs[qid]), ~missing))
                       /\ g_event' = IF missing THEN "none" ELSE "yield"
                       /\ g_pc' = IF missing THEN "raised" ELSE "draw"
                       /\ g_di' = g_di + 1
                       /\ UNCHANGED g_qi
               ELSE /\ g_qi' = g_qi + 1 /\ g_di' = 0
                    /\ g_event' = "none"
                    /\ UNCHANGED <<g_pc, g_round>>
    /\ UNCHANGED <<g_kind, g_missing, g_order, g_phase>>
    /\ UNCHANGED nonGenVars

InitGen ==
    /\ cfg = [batch |-> 1, itersize |-> 2, niters |-> MaxIters,
              gradacc |-> GradAcc(1, 1), lr |-> 1, validatefreq |-> 1]
    /\ EmptyRunDir
    /\ ProcessOff
    /\ NoHistory
    /\ s_input \in GenInputs
    /\ qid_to_docids = <<>> /\ qid_to_reldocs = <<>> /\ qid_to_negdocs = <<>>
    /\ total_samples = 0
    /\ s_state = "new"
    /\ ConfigIdle
    /\ g_kind \in SamplerKinds
    /\ g_missing \in {{}, {"d2"}}
    /\ g_kind # "triplet" => g_missing = {}
    /\ g_pc = "idle" /\ g_order = <<>> /\ g_qi = 0
    /\ g_phase = "rel" /\ g_di = 0
    /\ g_round = <<>> /\ g_event = "none"
    /\ ExtractorIdle

NextGen ==
    \/ Prepare
    \/ GenStart
    \/ Shuffle
    \/ DrawTriplet
    \/ DrawPair
    \/ PredNext

SpecGen == InitGen /\ [][NextGen]_vars

\* the judged queries of the pool handed to prepare
JudgedPoolQueries == (DOMAIN s_input.qid_to_docids) \cap (DOMAIN s_input.qrels)

\* the yielded id2vec calls of the round for a (query, doc) pair with a label
Yielded(qid, docid, label) ==
    Cardinality({i \in DOMAIN g_round :
                    /\ g_round[i].yielded
                    /\ g_round[i].qid = qid /\ g_round[i].posid = docid
                    /\ g_round[i].label = label})

\* C12: a finished pass of PredSampler has yielded exactly one instance for
\* every (query, doc) place of the candidate pool handed to prepare, for every
\* judged query of the pool, labelled [0,1] iff the doc is relevant for it and
\* [1,0] otherwise.
C12_PredCoverage ==
    (g_kind = "pred" /\ g_pc = "done") =>
        \A qid \in JudgedPoolQueries : \A docid \in PoolDocs :
            LET n == Count(s_input.qid_to_docids[qid], {docid})
                isrel == docid \in RelevantCandidates(qid)
            IN /\ Yielded(qid, docid, <<0, 1>>) = (IF isrel THEN n ELSE 0)
               /\ Yielded(qid, docid, <<1, 0>>) = (IF isrel THEN 0 ELSE n)

\* the queries the sampler holds
Retained == DOMAIN qid_to_reldocs

\* the stream is running
Streaming == g_pc \in {"shuffle", "draw"}

\* the stream never ends: it is not exhausted, it raises only when it is started
\* on a sampler that holds no query, and while it runs it has a next step
NeverEnds ==
    /\ g_pc # "done"
    /\ g_pc = "raised" => Retained = {}
    /\ Streaming => ENABLED (Shuffle \/ DrawTriplet \/ DrawPair)

\* all_qids holds every retained query once
OrderIsPermutation ==
    (Streaming /\ g_order # <<>>) =>
        /\ Len(g_order) = Cardinality(Retained)
        /\ \A qid \in Retained : \E i \in DOMAIN g_order : g_order[i] = qid

\* C14: the triplet stream never ends; in a round every retained query is
\* drawn exactly once, in the order of a permutation of the retained queries;
\* a drawn triple has its positive in the relevant list and its negative in
\* the non-relevant list of its query and is requested with label [1,0]; for
\* judgments {q1: {d1: 1, d2: 0}} and pool {q1: [d1, d2]} every triple is
\* (q1, d1, d2).
C14_TripletDraws ==
    (g_kind = "triplet" /\ s_state # "new") =>
        /\ NeverEnds
        /\ OrderIsPermutation
        /\ Streaming => Len(g_round) = (IF g_pc = "draw" THEN g_qi - 1 ELSE Len(g_order))
        /\ \A i \in DOMAIN g_round :
              LET c == g_round[i]
              IN /\ c.qid = g_order[i]
                 /\ c.posid \in RelevantCandidates(c.qid)
                 /\ Count(s_input.qid_to_docids[c.qid], {c.posid}) > 0
                 /\ c.negid \in PoolDocs \ RelevantCandidates(c.qid)
                 /\ Count(s_input.qid_to_docids[c.qid], {c.negid}) > 0
                 /\ c.label = <<1, 0>>
        /\ (/\ s_input.qid_to_docids = [qid \in {"q1"} |-> <<"d1", "d2">>]
            /\ s_input.qrels = [qid \in {"q1"} |-> [d \in PoolDocs |-> IF d = "d1" THEN 1 ELSE 0]])
           => \A i \in DOMAIN g_round :
                 /\ g_round[i].qid = "q1"
                 /\ g_round[i].posid = "d1"
                 /\ g_round[i].negid = "d2"

\* a second round over two retained queries has ended, drawn as q2 then q1; q1
\* has two non-relevant candidates
C14_Witness ==
    /\ g_kind = "triplet" /\ g_missing = {}
    /\ g_pc = "shuffle"
    /\ g_order = <<"q2", "q1">>
    /\ Len(g_round) = 2
    /\ g_round[1].qid = "q2" /\ g_round[2].qid = "q1"
    /\ Len(qid_to_negdocs["q1"]) = 2
    /\ g_round[2].yielded

\* some retained query has a negative with passages
UsablePair ==
    \E qid \in Retained : \E docid \in random_choice(qid_to_negdocs[qid]) : docid \notin g_missing

\* a missing negative never ends the stream: the call is not yielded, the
\* stream goes on, and every other call is yielded
SkipsMissing ==
    g_kind = "triplet" =>
        /\ g_pc = "raised" => Retained = {}
        /\ g_event = "skip" =>
              /\ Streaming
              /\ g_round[Len(g_round)].negid \in g_missing
        /\ \A i \in DOMAIN g_round : g_round[i].yielded <=> g_round[i].negid \notin g_missing

\* the stream is consumed, and the draws are fair: a pair that can be drawn
\* again and again is drawn
YieldTriplet == DrawTriplet /\ g_event' = "yield"

\* the triplet stream alone, over the shorter candidate lists
TripletInputs ==
    [qid_to_docids : Dicts(Qids, CandidateLists),
     qrels : Dicts(Qids, [PoolDocs -> {0, 1}]),
     relevance_level : {1}]

InitTriplet ==
    /\ cfg = [batch |-> 1, itersize |-> 2, niters |-> MaxIters,
              gradacc |-> GradAcc(1, 1), lr |-> 1, validatefreq |-> 1]
    /\ EmptyRunDir
    /\ ProcessOff
    /\ NoHistory
    /\ s_input \in TripletInputs
    /\ qid_to_docids = <<>> /\ qid_to_reldocs = <<>> /\ qid_to_negdocs = <<>>
    /\ total_samples = 0
    /\ s_state = "new"
    /\ ConfigIdle
    /\ g_kind = "triplet"
    /\ g_missing \in {{}, {"d2"}}
    /\ g_pc = "idle" /\ g_order = <<>> /\ g_qi = 0
    /\ g_phase = "rel" /\ g_di = 0
    /\ g_round = <<>> /\ g_event = "none"
    /\ ExtractorIdle

NextTriplet ==
    \/ Prepare
    \/ GenStart
    \/ Shuffle
    \/ DrawTriplet

SpecTripletFair ==
    /\ InitTriplet /\ [][NextTriplet]_vars
    /\ WF_vars(Prepare) /\ WF_vars(GenStart)
    /\ WF_vars(Shuffle) /\ WF_vars(DrawTriplet)
    /\ SF_vars(YieldTriplet)

\* C13: when id2vec raises the missing-document condition for the negative
\* drawn, no exception leaves the triplet stream; the draw is skipped and the
\* stream goes on with the next query, and it yields again and again as long
\* as some retained query has a negative with features.
C13_ToleratesMissing ==
    /\ []SkipsMissing
    /\ [](g_kind = "triplet" /\ Streaming /\ UsablePair => <>(g_event = "yield"))
    /\ []((g_kind = "triplet" /\ g_event = "skip" /\ UsablePair) => <>(g_event = "yield"))

\* q1's only negative d2 has no passages and was skipped; q2 was yielded after it
C13_Witness ==
    /\ g_kind = "triplet" /\ g_missing = {"d2"}
    /\ Len(g_round) = 2
    /\ g_round[1].qid = "q1" /\ g_round[1].negid = "d2" /\ ~g_round[1].yielded
    /\ g_round[2].qid = "q2" /\ g_round[2].negid = "d1" /\ g_round[2].yielded
    /\ g_event = "yield"

\* TrainPairSampler: the instances of one query, relevant docs then
\* non-relevant docs, each in list order
PairInstances(qid) ==
    [i \in 1..(Len(qid_to_reldocs[qid]) + Len(qid_to_negdocs[qid])) |->
        IF i <= Len(qid_to_reldocs[qid])
        THEN Call(qid, qid_to_reldocs[qid][i], "None", <<0, 1>>, TRUE)
        ELSE Call(qid, qid_to_negdocs[qid][i - Len(qid_to_reldocs[qid])], "None", <<1, 0>>, TRUE)]

\* the instances of the first k queries of the round
RECURSIVE PairInstancesUpTo(_)
PairInstancesUpTo(k) ==
    IF k = 0 THEN <<>> ELSE PairInstancesUpTo(k - 1) \o PairInstances(g_order[k])

\* C15: the pair stream never ends; in a round it visits every retained query
\* once, and for a visited query it yields every relevant doc in list order
\* with label [0,1] and only then every non-relevant doc in list order with
\* label [1,0], each without a negative partner.
C15_PairOrder ==
    (g_kind = "pair" /\ s_state # "new") =>
        /\ NeverEnds
        /\ OrderIsPermutation
        /\ g_pc = "shuffle" => g_round = PairInstancesUpTo(Len(g_order))
        /\ g_pc = "draw" =>
              LET qid == g_order[g_qi]
                  n == IF g_phase = "rel" THEN g_di ELSE Len(qid_to_reldocs[qid]) + g_di
              IN g_round = PairInstancesUpTo(g_qi - 1) \o SubSeq(PairInstances(qid), 1, n)

\* a round over two queries has ended; q1 has two relevant docs and one
\* non-relevant doc between them in its candidate list
C15_Witness ==
    /\ g_kind = "pair"
    /\ g_pc = "shuffle"
    /\ g_order = <<"q2", "q1">>
    /\ s_input.qid_to_docids["q1"] = <<"d1", "d2", "d1">>
    /\ qid_to_reldocs["q1"] = <<"d1", "d1">>
    /\ Len(g_round) = 5
    /\ g_round[5].posid = "d2" /\ g_round[5].label = <<1, 0>>

----------------------------------------------------------------------------
(* Cache keys (SpecHash): two sampler instances are prepared and hashed.    *)
(* A pool is a dict, that is its mapping and the order its queries were     *)
(* inserted in. md5 is taken to be injective: a digest is its input.        *)

HashLists == {<<"d1", "d2">>, <<"d2", "d1">>, <<"d1">>}
CachePaths == {"cache/a", "cache/b"}

\* the judgments: d1 is relevant and d2 is not, for q1 alone or for both queries
HashQrels ==
    {[qid \in judged |-> [d \in PoolDocs |-> IF d = "d1" THEN 1 ELSE 0]] :
        judged \in {{"q1"}, {"q1", "q2"}}}

\* the orders a dict with these keys can have been filled in
InsertionOrders(keys) ==
    {o \in [1..Cardinality(keys) -> keys] : \A k \in keys : \E i \in DOMAIN o : o[i] = k}

SamplerInstances ==
    {i \in [kind : SamplerKinds, cache_path : CachePaths, pool : Dicts(Qids, HashLists),
            order : UNION {[1..n -> Qids] : n \in 0..Cardinality(Qids)},
            qrels : HashQrels] :
        i.order \in InsertionOrders(DOMAIN i.pool)}

\* self.qid_to_docids after prepare(pool, qrels, extractor), as a mapping
prepared_docids(inst) ==
    LET in_qrels == (DOMAIN inst.pool) \cap (DOMAIN inst.qrels)
        docids == [qid \in in_qrels |-> inst.pool[qid]]
        rel == [qid \in in_qrels |-> reldocs(docids[qid], inst.qrels[qid], 1)]
        neg == [qid \in in_qrels |-> negdocs(docids[qid], inst.qrels[qid], 1)]
    IN clean(docids, rel, neg).qid_to_docids

\* self.qid_to_docids.items(): the (qid, docids) pairs in insertion order
dict_items(inst) ==
    LET kept == SelectSeq(inst.order, LAMBDA qid : qid \in DOMAIN prepared_docids(inst))
    IN [i \in DOMAIN kept |-> <<kept[i], prepared_docids(inst)[kept[i]]>>]

\* the order of Python strings on the query ids
QidRank == [qid \in Qids |-> IF qid = "q1" THEN 1 ELSE 2]

\* (mutant) the pairs as the dict gives them
items_unsorted(items) == items

\* sorted([(qid, docids) ...]): the pairs by ascending qid
sorted_items(items) ==
    LET pairs == {items[i] : i \in DOMAIN items}
    IN CHOOSE srt \in [DOMAIN items -> pairs] :
          /\ \A x \in pairs : \E i \in DOMAIN srt : srt[i] = x
          /\ \A i, j \in DOMAIN srt : i < j => QidRank[srt[i][1]] < QidRank[srt[j][1]]

\* hashlib.md5(key_content).hexdigest(), injective
md5(key_content) == key_content

\* the tag get_hash puts before the digest
hash_prefix(kind) ==
    CASE kind = "triplet" -> "triplet_"
      [] kind = "pair" -> "pair_"
      [] kind = "pred" -> "dev_"

\* get_hash(): "<tag>{md5(cache_path + str(sorted_rep))}"
get_hash(inst) ==
    [tag |-> hash_prefix(inst.kind),
     key |-> md5(<<inst.cache_path, sorted_items(dict_items(inst))>>)]

HashA ==
    /\ k_hash_a = NoHash
    /\ k_hash_a' = get_hash(k_a)
    /\ UNCHANGED <<k_a, k_b, k_hash_b>>
    /\ UNCHANGED nonHashVars

HashB ==
    /\ k_hash_b = NoHash
    /\ k_hash_b' = get_hash(k_b)
    /\ UNCHANGED <<k_a, k_b, k_hash_a>>
    /\ UNCHANGED nonHashVars

InitHash ==
    /\ cfg = [batch |-> 1, itersize |-> 2, niters |-> MaxIters,
              gradacc |-> GradAcc(1, 1), lr |-> 1, validatefreq |-> 1]
    /\ EmptyRunDir
    /\ ProcessOff
    /\ NoHistory
    /\ SamplerIdle
    /\ ConfigIdle
    /\ GenIdle
    /\ k_a \in SamplerInstances
    /\ k_b \in SamplerInstances
    /\ k_hash_a = NoHash /\ k_hash_b = NoHash
    /\ PassageIdle
    /\ PipelineIdle

NextHash ==
    \/ HashA
    \/ HashB

SpecHash == InitHash /\ [][NextHash]_vars

BothHashed == k_hash_a.tag # "none" /\ k_hash_b.tag # "none"

\* C16: two instances of one variant prepared from the same pool mapping,
\* judgments and cache path have the same get_hash(), whatever the order the
\* queries were inserted in; the hash starts with the tag of its variant
\* (triplet_, pair_, dev_), and instances of different variants never share one.
C16_HashDeterminism ==
    BothHashed =>
        /\ (/\ k_a.kind = k_b.kind
            /\ k_a.cache_path = k_b.cache_path
            /\ k_a.pool = k_b.pool
            /\ k_a.qrels = k_b.qrels) => k_hash_a = k_hash_b
        /\ \A h \in {<<k_a, k_hash_a>>, <<k_b, k_hash_b>>} :
              /\ h[1].kind = "triplet" => h[2].tag = "triplet_"
              /\ h[1].kind = "pair" => h[2].tag = "pair_"
              /\ h[1].kind = "pred" => h[2].tag = "dev_"
        /\ k_a.kind # k_b.kind => k_hash_a # k_hash_b

\* two triplet samplers hold both queries, inserted in opposite orders
C16_Witness ==
    /\ BothHashed
    /\ k_a.kind = "triplet" /\ k_b.kind = "triplet"
    /\ k_a.cache_path = k_b.cache_path
    /\ k_a.pool = k_b.pool /\ k_a.qrels = k_b.qrels
    /\ k_a.order = <<"q1", "q2">> /\ k_b.order = <<"q2", "q1">>
    /\ Len(k_hash_a.key[2]) = 2
    /\ k_hash_a = k_hash_b

\* C17: with md5 injective, two instances of one variant that differ in the
\* pool (a query more or less, a candidate more or less) or in the extractor
\* cache path have different get_hash() values.
C17_HashSensitivity ==
    (/\ BothHashed
     /\ k_a.kind = k_b.kind
     /\ k_a.qrels = k_b.qrels
     /\ (k_a.pool # k_b.pool \/ k_a.cache_path # k_b.cache_path))
    => k_hash_a # k_hash_b

----------------------------------------------------------------------------
(* Passages (SpecPassage): BertPassage.get_passages_for_doc on a document   *)
(* of distinct tokens 1, 2, ..., n. The tokenizer keeps a passage's tokens. *)

MaxDocLen == 5                     \* tokens of the longest document

PadPassage == <<0>>                \* ["[PAD]"]

Docs == {[i \in 1..n |-> i] : n \in 0..MaxDocLen}

PassageConfigs == [passagelen : {1, 2, 3}, stride : {1, 2, 3}, numpassages : {1, 2, 3}]

\* range(0, len(doc), stride)
window_starts(doc, c) == {i \in 0..(Len(doc) - 1) : i % c.stride = 0}

\* doc[i: i + passagelen]
window(doc, c, i) ==
    SubSeq(doc, i + 1, IF i + c.passagelen < Len(doc) THEN i + c.passagelen ELSE Len(doc))

\* the passages the loop appends, one per window start in ascending order; its
\* `if i >= len(doc)` is false for every i of the range, so the assert in it
\* is never evaluated
real_passages(doc, c) ==
    [k \in 1..Cardinality(window_starts(doc, c)) |-> window(doc, c, (k - 1) * c.stride)]

\* random.sample(population, k): the lists it can return, k places of the
\* population without repetition, in any order
random_sample(population, k) ==
    {[j \in 1..k |-> population[ix[j]]] :
        ix \in {f \in [1..k -> DOMAIN population] : \A a, b \in 1..k : a # b => f[a] # f[b]}}

\* get_passages_for_doc(doc): the outcomes it can have
get_passages_for_doc(doc, c) ==
    LET passages == real_passages(doc, c)
        n_actual_passages == Len(passages)
    IN IF n_actual_passages > c.numpassages
       THEN IF c.numpassages - 2 < 0
            THEN {[exc |-> "ValueError", passages |-> <<>>]}     \* random.sample(..., -1)
            ELSE {[exc |-> "none",
                   passages |-> <<passages[1]>> \o mid \o <<passages[n_actual_passages]>>] :
                     mid \in random_sample(SubSeq(passages, 2, n_actual_passages - 1),
                                           c.numpassages - 2)}
       ELSE {[exc |-> "none",
              passages |-> passages \o [j \in 1..(c.numpassages - n_actual_passages) |-> PadPassage]]}

\* extractor.get_passages_for_doc(p_doc)
GetPassages ==
    /\ p_pc = "new"
    /\ \E r \in get_passages_for_doc(p_doc, p_cfg) :
         /\ p_exc' = r.exc
         /\ p_passages' = r.passages
         /\ p_pc' = IF r.exc = "none" THEN "returned" ELSE "raised"
    /\ UNCHANGED <<p_doc, p_cfg>>
    /\ UNCHANGED nonPassageVars

InitPassage ==
    /\ cfg = [batch |-> 1, itersize |-> 2, niters |-> MaxIters,
              gradacc |-> GradAcc(1, 1), lr |-> 1, validatefreq |-> 1]
    /\ EmptyRunDir
    /\ ProcessOff
    /\ NoHistory
    /\ SamplerIdle
    /\ ConfigIdle
    /\ GenIdle
    /\ HashIdle
    /\ PipelineIdle
    /\ p_doc \in Docs
    /\ p_cfg \in PassageConfigs
    /\ p_pc = "new" /\ p_passages = <<>> /\ p_exc = "none"

NextPassage == GetPassages

SpecPassage == InitPassage /\ [][NextPassage]_vars

\* the windows of the document: token ranges starting at 0, stride, 2*stride, ...
Windows ==
    LET n == (Len(p_doc) + p_cfg.stride - 1) \div p_cfg.stride
    IN [k \in 1..n |->
           [t \in 1..(IF (k - 1) * p_cfg.stride + p_cfg.passagelen <= Len(p_doc)
                      THEN p_cfg.passagelen
                      ELSE Len(p_doc) - (k - 1) * p_cfg.stride) |->
               (k - 1) * p_cfg.stride + t]]

\* C18: get_passages_for_doc returns exactly numpassages passages for every
\* document and every numpassages >= 1; when the document has n > numpassages
\* windows the first passage is window 0, the last is window n-1, and the
\* passages between them are distinct windows among windows 1..n-2.
C18_PassageCount ==
    p_pc # "new" =>
        /\ p_pc = "returned"
        /\ Len(p_passages) = p_cfg.numpassages
        /\ Len(Windows) > p_cfg.numpassages =>
              /\ p_passages[1] = Windows[1]
              /\ p_passages[Len(p_passages)] = Windows[Len(Windows)]
              /\ \A i \in 2..(Len(p_passages) - 1) :
                    /\ \E k \in 2..(Len(Windows) - 1) : p_passages[i] = Windows[k]
                    /\ \A j \in 2..(Len(p_passages) - 1) :
                          i # j => p_passages[i] # p_passages[j]

\* C19: get_passages_for_doc on a document without tokens fails with an
\* assertion error and returns no passage list.
C19_EmptyDocument ==
    (p_pc # "new" /\ Len(p_doc) = 0) =>
        /\ p_pc = "raised"
        /\ p_exc = "AssertionError"

\* C20: for a document with fewer than passagelen tokens get_passages_for_doc
\* returns the whole document as its one real passage, followed by
\* numpassages - 1 padding passages.
C20_ShortDocument ==
    (p_pc # "new" /\ Len(p_doc) >= 1 /\ Len(p_doc) < p_cfg.passagelen) =>
        /\ p_pc = "returned"
        /\ Len(p_passages) = p_cfg.numpassages
        /\ p_passages[1] = p_doc
        /\ \A i \in 2..Len(p_passages) : p_passages[i] = PadPassage

----------------------------------------------------------------------------
(* Features (SpecVec): BertPassage.id2vec on a query, a positive document   *)
(* and an optional negative document whose passages get_passages_for_doc    *)
(* produced.                                                                *)

MaxQueryLen == 3                   \* tokens of the longest query

MaxSeqLens == {3, 4, 5}            \* values of config["maxseqlen"]

\* tokens as id2vec handles them: the markers and the words of the texts
CLS == [tok |-> "[CLS]", n |-> 0]
SEP == [tok |-> "[SEP]", n |-> 0]
pad_tok == [tok |-> "[PAD]", n |-> 0]
Word(n) == [tok |-> "word", n |-> n]

\* a passage of docid2passages as a list of tokens (PadPassage is ["[PAD]"])
passage_tokens(passage) ==
    IF passage = PadPassage THEN <<pad_tok>> ELSE [i \in DOMAIN passage |-> Word(passage[i])]

\* self.qid2toks[qid]
QueryToks == {[i \in 1..n |-> Word(i)] : n \in 0..MaxQueryLen}

\* padlist(list_to_pad, padlen, pad_token): right-padded to padlen
padlist(list_to_pad, padlen, pad_token) ==
    IF Len(list_to_pad) >= padlen
    THEN SubSeq(list_to_pad, 1, padlen)
    ELSE list_to_pad \o [i \in 1..(padlen - Len(list_to_pad)) |-> pad_token]

\* tokenizer.convert_tokens_to_ids: the vocabulary index of every token
convert_tokens_to_ids(toks) ==
    [i \in DOMAIN toks |->
        CASE toks[i].tok = "[PAD]" -> 0
          [] toks[i].tok = "[CLS]" -> 101
          [] toks[i].tok = "[SEP]" -> 102
          [] OTHER -> 1000 + toks[i].n]

\* [x] * n of Python: empty when n <= 0
Repeat(x, n) == [i \in 1..n |-> x]

\* ["[CLS]"] + query_toks + ["[SEP]"] + tokenized_passage + ["[SEP]"]
raw_input_line(query_toks, passage) ==
    <<CLS>> \o query_toks \o <<SEP>> \o passage_tokens(passage) \o <<SEP>>

\* the input line after the `if len(input_line) > maxseqlen` truncation
input_line(query_toks, passage, maxseqlen) ==
    LET line == raw_input_line(query_toks, passage)
    IN IF Len(line) > maxseqlen
       THEN [i \in 1..maxseqlen |-> IF i = maxseqlen THEN SEP ELSE line[i]]
       ELSE line

\* the three rows one passage contributes
bert_rows(query_toks, passage, maxseqlen) ==
    LET line == input_line(query_toks, passage, maxseqlen)
        padded_input_line == padlist(line, maxseqlen, pad_tok)
    IN [input |-> convert_tokens_to_ids(padded_input_line),
        mask |-> Repeat(1, Len(line)) \o Repeat(0, Len(padded_input_line) - Len(line)),
        seg |-> Repeat(0, Len(query_toks) + 2)
                  \o Repeat(1, Len(padded_input_line) - Len(query_toks) - 2)]

\* np.zeros((numpassages, maxseqlen))
np_zeros(rows, cols) == [i \in 1..rows |-> Repeat(0, cols)]

\* id2vec(qid, posid, negid, label): the returned dict, or MissingDocError
id2vec(query_toks, pos_passages, neg, c) ==
    LET pos == [i \in DOMAIN pos_passages |->
                   bert_rows(query_toks, pos_passages[i], c.maxseqlen)]
        negrows == [i \in DOMAIN neg.passages |->
                       bert_rows(query_toks, neg.passages[i], c.maxseqlen)]
        zeros == np_zeros(c.numpassages, c.maxseqlen)
    IN IF neg.given /\ Len(negrows) = 0
       THEN [exc |-> "MissingDocError", data |-> <<>>]
       ELSE [exc |-> "none",
             data |->
               [posdoc |-> [i \in DOMAIN pos |-> pos[i].input],
                posdoc_mask |-> [i \in DOMAIN pos |-> pos[i].mask],
                posdoc_seg |-> [i \in DOMAIN pos |-> pos[i].seg],
                negdoc |-> IF neg.given THEN [i \in DOMAIN negrows |-> negrows[i].input]
                           ELSE zeros,
                negdoc_mask |-> IF neg.given THEN [i \in DOMAIN negrows |-> negrows[i].mask]
                                ELSE zeros,
                negdoc_seg |-> IF neg.given THEN [i \in DOMAIN negrows |-> negrows[i].seg]
                               ELSE zeros]]

\* the passage lists _build_vocab stores for a numpassages
BuiltPassages(numpassages) ==
    {r.passages : r \in {o \in UNION {get_passages_for_doc(doc, c) :
                                         doc \in Docs,
                                         c \in {pc0 \in PassageConfigs :
                                                  pc0.numpassages = numpassages}} :
                            o.exc = "none"}}

\* extractor.id2vec(qid, posid, negid, label)
Id2vec ==
    /\ v_pc = "new"
    /\ LET r == id2vec(v_qtoks, v_pos, v_neg, v_cfg)
       IN /\ v_pc' = IF r.exc = "none" THEN "returned" ELSE "raised"
          /\ v_data' = r.data
    /\ UNCHANGED <<v_qtoks, v_pos, v_neg, v_cfg>>
    /\ UNCHANGED nonVecVars

InitVec ==
    /\ cfg = [batch |-> 1, itersize |-> 2, niters |-> MaxIters,
              gradacc |-> GradAcc(1, 1), lr |-> 1, validatefreq |-> 1]
    /\ EmptyRunDir
    /\ ProcessOff
    /\ NoHistory
    /\ SamplerIdle
    /\ ConfigIdle
    /\ GenIdle
    /\ HashIdle
    /\ PassageIdle
    /\ CkptIdle
    /\ RecordIdle
    /\ StreamsIdle
    /\ v_cfg \in [maxseqlen : MaxSeqLens, numpassages : {1, 2, 3}]
    /\ v_qtoks \in QueryToks
    /\ v_pos \in BuiltPassages(v_cfg.numpassages)
    /\ v_neg \in [given : {FALSE}, passages : {<<>>}]
                   \cup [given : {TRUE},
                         passages : BuiltPassages(v_cfg.numpassages) \cup {<<>>}]
    /\ v_pc = "new" /\ v_data = <<>>

NextVec == Id2vec

SpecVec == InitVec /\ [][NextVec]_vars

\* the shape of a two-dimensional array built from a list of rows
Shape(rows) == <<Len(rows), IF Len(rows) = 0 THEN 0 ELSE Len(rows[1])>>

\* the mask of a passage: min(len(raw input line), maxseqlen) ones, then zeros
MaskOf(passage) ==
    LET n == Len(raw_input_line(v_qtoks, passage))
        ones == IF n < v_cfg.maxseqlen THEN n ELSE v_cfg.maxseqlen
    IN [i \in 1..v_cfg.maxseqlen |-> IF i <= ones THEN 1 ELSE 0]

\* C21: id2vec returns token-id, mask and segment-id arrays of shape
\* [numpassages, maxseqlen] for the positive document and for the negative
\* one, for a query of any length; every mask row is min(len(input line),
\* maxseqlen) ones followed by zeros, and a truncated row ends with [SEP].
C21_Id2vecShapes ==
    v_pc = "returned" =>
        /\ \A f \in {"posdoc", "posdoc_mask", "posdoc_seg",
                     "negdoc", "negdoc_mask", "negdoc_seg"} :
              Shape(v_data[f]) = <<v_cfg.numpassages, v_cfg.maxseqlen>>
        /\ \A i \in DOMAIN v_pos :
              /\ v_data.posdoc_mask[i] = MaskOf(v_pos[i])
              /\ Len(raw_input_line(v_qtoks, v_pos[i])) > v_cfg.maxseqlen
                    => v_data.posdoc[i][v_cfg.maxseqlen] = 102
        /\ v_neg.given =>
              \A i \in DOMAIN v_neg.passages :
                 /\ v_data.negdoc_mask[i] = MaskOf(v_neg.passages[i])
                 /\ Len(raw_input_line(v_qtoks, v_neg.passages[i])) > v_cfg.maxseqlen
                       => v_data.negdoc[i][v_cfg.maxseqlen] = 102

----------------------------------------------------------------------------
(* Checkpoints of both trainer variants (SpecCheckpoint): the weights       *)
(* snapshots PytorchTrainer.train writes through Reranker.save_weights and  *)
(* the one TrecCheckpointCallback writes through the Keras model.           *)

\* self.model.save_weights(".../dev.best") of the Keras model: every weight of
\* the model is written
keras_save_weights(mw) == [exists |-> TRUE, ok |-> TRUE, keys |-> state_dict_keys, w |-> mw]

\* the end of iteration cb_epoch of PytorchTrainer.train: the iteration's weights
\* are saved; when the iteration is validated and its metric exceeds
\* dev_best_metric, which stays at -inf, dev.best is saved too
EpochEndPytorch ==
    /\ cb_kind = "pytorch"
    /\ cb_epoch < cfg.niters
    /\ cb_weights' = [cb_weights EXCEPT ![cb_epoch] = save_weights_file(cb_epoch + 1)]
    /\ IF cb_epoch % cfg.validatefreq = 0
       THEN \E metric \in 0..MaxMetric :
               cb_dev_best' = IF metric > cb_best_metric
                              THEN save_weights_file(cb_epoch + 1)
                              ELSE cb_dev_best
       ELSE cb_dev_best' = cb_dev_best
    /\ cb_epoch' = cb_epoch + 1
    /\ UNCHANGED <<cb_kind, cb_best_metric>>
    /\ UNCHANGED nonCkptVars

\* TrecCheckpointCallback.on_epoch_end in model.fit(epochs=niters)
OnEpochEnd ==
    /\ cb_kind = "tensorflow"
    /\ cb_epoch < cfg.niters
    /\ \E metric \in 0..MaxMetric :
          IF metric > cb_best_metric
          THEN /\ cb_best_metric' = metric
               /\ cb_dev_best' = keras_save_weights(cb_epoch + 1)
          ELSE UNCHANGED <<cb_best_metric, cb_dev_best>>
    /\ cb_epoch' = cb_epoch + 1
    /\ UNCHANGED <<cb_kind, cb_weights>>
    /\ UNCHANGED nonCkptVars

InitCheckpoint ==
    /\ cfg \in TrainCfgs
    /\ EmptyRunDir
    /\ ProcessOff
    /\ NoHistory
    /\ SamplerIdle
    /\ ConfigIdle
    /\ GenIdle
    /\ HashIdle
    /\ PassageIdle
    /\ VecIdle
    /\ RecordIdle
    /\ StreamsIdle
    /\ cb_kind \in {"pytorch", "tensorflow"}
    /\ cb_epoch = 0 /\ cb_best_metric = NegInf
    /\ cb_weights = [i \in Iters |-> NoFile] /\ cb_dev_best = NoFile

NextCheckpoint ==
    \/ EpochEndPytorch
    \/ OnEpochEnd

SpecCheckpoint == InitCheckpoint /\ [][NextCheckpoint]_vars

\* the weights snapshots on disk
Snapshots == {cb_weights[i] : i \in Iters} \cup {cb_dev_best}

\* C22: whatever per-iteration and best-checkpoint saves either trainer
\* variant has made, no weights snapshot on disk holds the embedding table or
\* a parameter tagged '_nosave_'.
C22_NoEmbeddingPersisted ==
    \A f \in Snapshots :
        f.exists => \A k \in f.keys : ~HasEmbedding(k) /\ ~HasNoSave(k)

----------------------------------------------------------------------------
(* Loading a checkpoint (SpecLoad): Reranker.load_weights called on a       *)
(* weights file and an optimizer file found on disk, with a model and an    *)
(* optimizer that hold some state already.                                  *)

\* reranker.load_weights(weights/<j>.p, optimizer); ff_exc tells whether the
\* call raised
LoadWeightsAt(j) ==
    /\ pc = "off"
    /\ LET r == load_weights(FileAt(weights_files, j), FileAt(opt_files, j), model_w, opt_s)
       IN /\ ff_exc' = IF r.raised THEN "raised" ELSE "none"
          /\ model_w' = r.model_w
          /\ opt_s' = r.opt_s
    /\ pc' = "returned"
    /\ UNCHANGED <<cfg, RunDir, fastforward, grads, rng, ProcessLocals, ff_ret>>
    /\ UNCHANGED historyVars
    /\ UNCHANGED nonTrainerVars

CallLoadWeights == \E j \in Iters : LoadWeightsAt(j)

InitLoad ==
    /\ cfg = [batch |-> 1, itersize |-> 2, niters |-> MaxIters,
              gradacc |-> GradAcc(1, 1), lr |-> 1, validatefreq |-> 1]
    /\ weights_dir = TRUE
    /\ loss_file = NoLossFile
    /\ \E j \in Iters, wf \in FFWeightFiles, of \in FFOptFiles :
         /\ weights_files = [i \in Iters |-> IF i = j THEN wf ELSE NoFile]
         /\ opt_files = [i \in Iters |-> IF i = j THEN of ELSE NoFile]
    /\ dev_best = NoFile /\ dev_best_opt = NoFile
    /\ run_files = {}
    /\ pc = "off" /\ fastforward = FALSE
    /\ model_w \in {0, 1} /\ opt_s \in {0, 1}
    /\ grads = 0 /\ rng = 0 /\ gen_fresh = TRUE
    /\ initial_iter = 0 /\ niter = 0 /\ bi = 0 /\ batches_since_update = 0
    /\ iter_batches = <<>> /\ train_loss = <<>> /\ dev_best_metric = NegInf
    /\ ff_ret = 0 /\ ff_exc = "none"
    /\ NoHistory
    /\ SamplerIdle
    /\ ConfigIdle
    /\ GenIdle
    /\ ExtractorIdle

NextLoad == CallLoadWeights

SpecLoad == InitLoad /\ [][NextLoad]_vars

\* the keys pickled in weights/<j>.p are not the keys the model expects
KeyMismatch(j) ==
    /\ weights_files[j].exists /\ weights_files[j].ok
    /\ weights_files[j].keys # cur_keys

\* C23: load_weights on a weights file whose keys are not the model's keys
\* (embedding and '_nosave_' keys set aside), one missing or one too many,
\* raises, and leaves the model's weights and the optimizer's state as they
\* were.
C23_KeyMismatchFatal ==
    [][\A j \in Iters :
          (LoadWeightsAt(j) /\ KeyMismatch(j)) =>
              /\ ff_exc' = "raised"
              /\ model_w' = model_w
              /\ opt_s' = opt_s]_vars

----------------------------------------------------------------------------
(* Serialized records (SpecRecord): BertPassage.create_tf_train_feature and *)
(* create_tf_dev_feature turn a sample into features, and                   *)
(* parse_tf_train_example / parse_tf_dev_example read them back. A tensor   *)
(* is modelled by its dtype and its shape.                                  *)

Tensor(dtype, shape) == [dtype |-> dtype, shape |-> shape]

\* the keys of the dict id2vec returns, and the keys create_tf_*_feature reads
Id2vecKeys ==
    {"posdoc", "posdoc_mask", "posdoc_seg", "negdoc", "negdoc_mask", "negdoc_seg", "label"}
FeatureInputKeys ==
    {"pos_bert_input", "pos_mask", "pos_seg", "neg_bert_input", "neg_mask", "neg_seg", "label"}

\* a sample under either naming: [numpassages, maxseqlen] integer arrays and a
\* [numpassages, 2] float label; `real` is the number of passages that are not
\* padding
Samples(c) ==
    {[keys |-> ks, real |-> n] : ks \in {Id2vecKeys, FeatureInputKeys}, n \in 0..c.numpassages}

sample_tensor(key, c) ==
    IF key = "label" THEN Tensor("float32", <<c.numpassages, 2>>)
    ELSE Tensor("int64", <<c.numpassages, c.maxseqlen>>)

\* x[i] of an array: the first dimension is dropped
Row(t) == Tensor(t.dtype, Tail(t.shape))

\* get_tf_feature_description(): the field names a reader asks for
get_tf_feature_description ==
    {"posdoc", "posdoc_mask", "posdoc_seg", "negdoc", "negdoc_mask", "negdoc_seg", "label"}

\* the passages create_tf_train_feature can emit: passage 0 and any of the
\* others (random.random() <= prob), those that are only padding left out
train_passage_sets(sample, c) ==
    {{i \in chosen \cup {0} : i < sample.real} : chosen \in SUBSET (1..(c.numpassages - 1))}

\* create_tf_train_feature(sample): KeyError when the sample lacks a key it
\* reads, else one feature per emitted passage
create_tf_train_feature(sample, c) ==
    IF ~(FeatureInputKeys \subseteq sample.keys)
    THEN {[exc |-> "KeyError", features |-> <<>>]}
    ELSE {[exc |-> "none",
           features |->
              LET feature == [k \in FeatureInputKeys |-> Row(sample_tensor(k, c))]
              IN [j \in 1..Cardinality(emitted) |-> feature]] :
            emitted \in train_passage_sets(sample, c)}

\* create_tf_dev_feature(sample): one feature holding all passages
create_tf_dev_feature(sample, c) ==
    IF ~(FeatureInputKeys \subseteq sample.keys)
    THEN {[exc |-> "KeyError", features |-> <<>>]}
    ELSE {[exc |-> "none",
           features |-> <<[k \in FeatureInputKeys |-> sample_tensor(k, c)]>>]}

\* the shape parse_tensor_as_int / parse_label_tensor set on a parsed field
declared_tensor(mode, key, c) ==
    IF mode = "train"
    THEN (IF key = "label" THEN Tensor("float32", <<2>>)
          ELSE Tensor("int64", <<c.maxseqlen>>))
    ELSE (IF key = "label" THEN Tensor("float32", <<c.numpassages, 2>>)
          ELSE Tensor("int64", <<c.numpassages, c.maxseqlen>>))

\* parse_tf_train_example / parse_tf_dev_example on one feature:
\* tf.io.parse_example fails on a declared field the record lacks (a
\* FixedLenFeature without default), parse_tensor on another dtype, set_shape
\* on another shape
parse_tf_example(mode, feature, c) ==
    IF ~(get_tf_feature_description \subseteq DOMAIN feature)
    THEN [exc |-> "InvalidArgumentError", parsed |-> <<>>]
    ELSE IF \E k \in get_tf_feature_description :
               feature[k].dtype # declared_tensor(mode, k, c).dtype
    THEN [exc |-> "InvalidArgumentError", parsed |-> <<>>]
    ELSE IF \E k \in get_tf_feature_description : feature[k] # declared_tensor(mode, k, c)
    THEN [exc |-> "ValueError", parsed |-> <<>>]
    ELSE [exc |-> "none", parsed |-> [k \in get_tf_feature_description |-> feature[k]]]

\* extractor.create_tf_train_feature(sample) or create_tf_dev_feature(sample)
CreateFeature ==
    /\ r_pc = "new"
    /\ \E r \in IF r_mode = "train" THEN create_tf_train_feature(r_sample, r_cfg)
                ELSE create_tf_dev_feature(r_sample, r_cfg) :
          /\ r_exc' = r.exc
          /\ r_features' = r.features
          /\ r_pc' = IF r.exc = "none" THEN "created" ELSE "raised"
    /\ UNCHANGED <<r_mode, r_cfg, r_sample, r_parsed>>
    /\ UNCHANGED nonRecordVars

\* the records written are read back with parse_tf_train_example or
\* parse_tf_dev_example, in order; the first failure stops the read
ParseExamples ==
    /\ r_pc = "created"
    /\ LET results == [j \in DOMAIN r_features |-> parse_tf_example(r_mode, r_features[j], r_cfg)]
           failed == {j \in DOMAIN results : results[j].exc # "none"}
       IN IF failed = {}
          THEN /\ r_parsed' = [j \in DOMAIN results |-> results[j].parsed]
               /\ r_exc' = "none"
               /\ r_pc' = "parsed"
          ELSE /\ r_parsed' = <<>>
               /\ r_exc' = results[CHOOSE j \in failed : \A j2 \in failed : j <= j2].exc
               /\ r_pc' = "raised"
    /\ UNCHANGED <<r_mode, r_cfg, r_sample, r_features>>
    /\ UNCHANGED nonRecordVars

InitRecord ==
    /\ cfg = [batch |-> 1, itersize |-> 2, niters |-> MaxIters,
              gradacc |-> GradAcc(1, 1), lr |-> 1, validatefreq |-> 1]
    /\ EmptyRunDir
    /\ ProcessOff
    /\ NoHistory
    /\ SamplerIdle
    /\ ConfigIdle
    /\ GenIdle
    /\ HashIdle
    /\ PassageIdle
    /\ VecIdle
    /\ CkptIdle
    /\ StreamsIdle
    /\ r_mode \in {"train", "dev"}
    /\ r_cfg \in [maxseqlen : MaxSeqLens, numpassages : {1, 2, 3}]
    /\ r_sample \in Samples(r_cfg)
    /\ r_pc = "new" /\ r_features = <<>> /\ r_parsed = <<>> /\ r_exc = "none"

NextRecord ==
    \/ CreateFeature
    \/ ParseExamples

SpecRecord == InitRecord /\ [][NextRecord]_vars

\* C24: the field names the features are stored under are the names the
\* feature description declares and the parsers read, so every record written
\* parses back, each field restored with its declared shape ([maxseqlen] for
\* training, [numpassages, maxseqlen] for evaluation).
C24_RecordRoundTrip ==
    /\ \A j \in DOMAIN r_features : DOMAIN r_features[j] = get_tf_feature_description
    /\ r_exc \notin {"InvalidArgumentError", "ValueError"}
    /\ r_pc = "parsed" =>
          /\ Len(r_parsed) = Len(r_features)
          /\ \A j \in DOMAIN r_parsed : \A k \in get_tf_feature_description :
                r_parsed[j][k] = declared_tensor(r_mode, k, r_cfg)

----------------------------------------------------------------------------
(* Order of the writes of an iteration (Spec) *)

\* the checkpoint of iteration i is on disk, whole
CheckpointOnDisk(i) ==
    /\ i \in Iters
    /\ weights_files[i].exists /\ weights_files[i].ok
    /\ opt_files[i].exists /\ opt_files[i].ok

\* the step that records the loss line of iteration niter finds that
\* iteration's weights and optimizer state on disk, as this process saved them
C25_LossWrittenLast ==
    (pc = "write_loss" /\ pc' = "loop") =>
        /\ Len(loss_file'.lines) = niter + 1
        /\ CheckpointOnDisk(niter)
        /\ weights_files[niter] = save_weights_file(model_w)
        /\ opt_files[niter] = save_optimizer_file(opt_s)
        /\ UNCHANGED <<weights_files, opt_files>>

\* C25: whenever the loss file of the run records n >= 1 iterations, also
\* right after an interruption at any step, weights/<n-1>.p and its optimizer
\* file exist, and they were written before line n-1 was: the loss file is
\* the last thing an iteration writes.
C25_WeightsBeforeLoss ==
    /\ []((~h_tampered /\ Len(loss_file.lines) >= 1)
             => CheckpointOnDisk(Len(loss_file.lines) - 1))
    /\ [][C25_LossWrittenLast]_vars

\* a process was interrupted after it recorded two iterations
C25_Witness ==
    /\ pc = "off" /\ h_end = "interrupted" /\ ~h_tampered
    /\ Len(h_launches) = 1
    /\ Len(loss_file.lines) = 2
    /\ CheckpointOnDisk(1)

----------------------------------------------------------------------------
(* The stream across iterations (Spec) *)

\* batches k*B .. (k+1)*B - 1 of one stream seeded once, B = itersize // batch
StreamSegment(k, c) ==
    LET B == batches_per_epoch(c)
        at(j) == draw_samples(random_seed(seed), j * c.batch, <<>>).rng
    IN [i \in 1..B |-> draw_samples(at(k * B + i - 1), c.batch, <<>>).batch]

\* C26: in an uninterrupted run, iteration k consumes batches k*B .. (k+1)*B - 1
\* of a single sampler stream: consecutive iterations consume consecutive
\* segments, and the stream is not restarted or re-seeded between them.
C26_OneStream ==
    (Len(h_launches) = 1 /\ pc = "save_weights") => iter_batches = StreamSegment(niter, cfg)

----------------------------------------------------------------------------
(* Gradient accumulation (Spec) *)

\* C27: for every accepted configuration single_train_iteration processes
\* itersize // batch batches, steps the optimizer after every gradacc-th of
\* them, and ends with no batch back-propagated since the last optimizer
\* step: no gradient is dropped or carried into the next iteration, and every
\* iteration updates the weights at least once.
C27_NoGradientLeft ==
    /\ pc = "train" =>
          /\ batches_since_update = bi % batches_per_step(cfg)
          /\ grads = batches_since_update
    /\ pc = "save_weights" =>
          /\ bi = batches_per_epoch(cfg)
          /\ batches_since_update = 0
          /\ grads = 0

----------------------------------------------------------------------------
(* Two generators in one process (SpecStreams): a TrainTripletSampler or    *)
(* TrainPairSampler generator is consumed while another sampler generator   *)
(* is created, partly consumed and abandoned. Both draw from the process's  *)
(* `random` module; a draw is what random_step returns, as in next_batch.   *)

MaxDraws == 3                      \* draws taken from either generator

\* config["seed"] of the other sampler: the default, or another value
OtherSeeds == {seed, seed + 5}

\* next(gen_a): the first next() runs generate_samples up to its first yield,
\* random.seed(seed) included
NextA ==
    /\ Len(x_a) < MaxDraws
    /\ LET r == IF x_a = <<>> THEN random_seed(seed) ELSE x_rng
       IN /\ x_rng' = random_step(r)
          /\ x_a' = Append(x_a, random_step(r))
    /\ UNCHANGED <<x_b_seed, x_b, x_b_drawn>>
    /\ UNCHANGED nonStreamsVars

\* gen_b = iter(other_sampler): nothing of generate_samples runs yet
CreateB ==
    /\ x_b = "none"
    /\ x_b' = "created"
    /\ UNCHANGED <<x_rng, x_a, x_b_seed, x_b_drawn>>
    /\ UNCHANGED nonStreamsVars

\* next(gen_b)
NextB ==
    /\ x_b \in {"created", "running"}
    /\ x_b_drawn < MaxDraws
    /\ LET r == IF x_b = "created" THEN random_seed(x_b_seed) ELSE x_rng
       IN x_rng' = random_step(r)
    /\ x_b' = "running"
    /\ x_b_drawn' = x_b_drawn + 1
    /\ UNCHANGED <<x_a, x_b_seed>>
    /\ UNCHANGED nonStreamsVars

\* gen_b is dropped by its consumer
AbandonB ==
    /\ x_b \in {"created", "running"}
    /\ x_b' = "abandoned"
    /\ UNCHANGED <<x_rng, x_a, x_b_seed, x_b_drawn>>
    /\ UNCHANGED nonStreamsVars

InitStreams ==
    /\ cfg = [batch |-> 1, itersize |-> 2, niters |-> MaxIters,
              gradacc |-> GradAcc(1, 1), lr |-> 1, validatefreq |-> 1]
    /\ EmptyRunDir
    /\ ProcessOff
    /\ NoHistory
    /\ SamplerIdle
    /\ ConfigIdle
    /\ GenIdle
    /\ HashIdle
    /\ PassageIdle
    /\ VecIdle
    /\ CkptIdle
    /\ RecordIdle
    /\ x_rng \in LaunchRngs
    /\ x_a = <<>>
    /\ x_b_seed \in OtherSeeds
    /\ x_b = "none" /\ x_b_drawn = 0

NextStreams ==
    \/ NextA
    \/ CreateB
    \/ NextB
    \/ AbandonB

SpecStreams == InitStreams /\ [][NextStreams]_vars

\* the first n draws of a generator consumed alone
Alone(n) == draw_samples(random_seed(seed), n, <<>>).batch

\* C28: the draws of one generator are a function of its seed and its
\* sampler's mappings only: they are the same whether it is consumed alone or
\* interleaved with the creation, partial consumption and abandonment of
\* another sampler generator in the same process.
C28_InterleavingDeterminism == x_a = Alone(Len(x_a))

----------------------------------------------------------------------------
(* Resuming a finished run (Spec) *)

\* train() runs with an initial_iter that leaves no iteration to do
ResumedFinished == pc \notin {"off", "fastforward", "returned"} /\ initial_iter >= cfg.niters

\* C29 (state part): such a process is before or at the head of its empty
\* loop, and has drawn no batch, scored nothing and validated nothing
C29_NothingDone ==
    ResumedFinished =>
        /\ pc \in {"resume", "loop"}
        /\ h_replayed = 0 /\ h_scored = 0 /\ h_validated = <<>>

\* C29 (step part): its steps, the fast-forward that resumed it included,
\* leave the files of the run directory as they are
C29_NothingWritten ==
    (ResumedFinished \/ ResumedFinished') => RunDir' = RunDir

\* C29: when fast-forward resumes at an iteration >= niters, train() executes
\* no iteration, draws no batch, validates nothing, and leaves every
\* weights/<iter>.p, dev.best and info/loss.txt unchanged.
C29_FinishedResumeNoOp == []C29_NothingDone /\ [][C29_NothingWritten]_vars

\* a second launch fast-forwarded to the end of a run the first launch completed
C29_Witness ==
    /\ Len(h_launches) = 2 /\ fastforward
    /\ h_end = "completed"
    /\ pc = "loop" /\ initial_iter = cfg.niters /\ niter = cfg.niters
    /\ Len(loss_file.lines) = cfg.niters

----------------------------------------------------------------------------
(* Predictions and their pairs (SpecGen): PredSampler.get_qid_docid_pairs   *)
(* against the instances generate_samples yields, and                       *)
(* TrecCheckpointCallback.get_preds_in_trec_format on the scores of those   *)
(* instances. g_order is the key order of self.qid_to_docids.               *)

RECURSIVE pairs_from(_, _, _)
pairs_from(order, docids, k) ==
    IF k > Len(order) THEN <<>>
    ELSE [j \in DOMAIN docids[order[k]] |-> <<order[k], docids[order[k]][j]>>]
             \o pairs_from(order, docids, k + 1)

\* (mutant) the pairs by ascending query id instead of the dict's key order
get_qid_docid_pairs_sorted(order, docids) ==
    LET srt == CHOOSE o \in [DOMAIN order -> {order[i] : i \in DOMAIN order}] :
                  /\ \A i \in DOMAIN order : \E j \in DOMAIN o : o[j] = order[i]
                  /\ \A i, j \in DOMAIN o : i < j => QidRank[o[i]] < QidRank[o[j]]
    IN pairs_from(srt, docids, 1)

\* PredSampler.get_qid_docid_pairs: for qid in self.qid_to_docids: for docid in
\* self.qid_to_docids[qid]: yield qid, docid
get_qid_docid_pairs(order, docids) == pairs_from(order, docids, 1)

\* model.predict over the instances, in their order: one score per instance, and
\* a score is a function of the instance it was computed for
predict(instances) ==
    [i \in DOMAIN instances |-> [qid |-> instances[i].qid, docid |-> instances[i].posid]]

\* get_preds_in_trec_format(predictions, dev_data): pred_dict[qid][docid] =
\* predictions[i] for the i-th pair, a later i overwriting an earlier one
get_preds_in_trec_format(predictions, pairs) ==
    [pair \in {pairs[i] : i \in DOMAIN pairs} |->
        predictions[CHOOSE i \in DOMAIN pairs :
                       /\ pairs[i] = pair
                       /\ \A j \in DOMAIN pairs : pairs[j] = pair => j <= i]]

\* the (qid, docid) pairs of the sampler, as get_qid_docid_pairs lists them
PredPairs == get_qid_docid_pairs(g_order, qid_to_docids)

\* the instances generate_samples has yielded in the running pass
PredInstances == SelectSeq(g_round, LAMBDA call : call.yielded)

\* the (query, doc) pairs of the candidate lists the sampler holds
CandidatePairs ==
    UNION {{<<qid, qid_to_docids[qid][j]>> : j \in DOMAIN qid_to_docids[qid]} :
              qid \in DOMAIN qid_to_docids}

\* C30: the i-th pair of get_qid_docid_pairs is the (qid, docid) of the i-th
\* instance generate_samples yields and a finished pass has yielded as many
\* instances as there are pairs, so get_preds_in_trec_format gives every
\* (query, doc) pair the score computed for it, one score per candidate pair.
C30_PredAlignment ==
    (g_kind = "pred" /\ g_pc \in {"draw", "done"}) =>
        /\ Len(PredInstances) <= Len(PredPairs)
        /\ \A i \in DOMAIN PredInstances :
              PredPairs[i] = <<PredInstances[i].qid, PredInstances[i].posid>>
        /\ g_pc = "done" =>
              /\ Len(PredInstances) = Len(PredPairs)
              /\ LET pred_dict == get_preds_in_trec_format(predict(PredInstances), PredPairs)
                 IN /\ DOMAIN pred_dict = CandidatePairs
                    /\ \A pair \in DOMAIN pred_dict :
                          pred_dict[pair] = [qid |-> pair[1], docid |-> pair[2]]

\* a finished pass over two queries whose dict order is not their sorted order
C30_Witness ==
    /\ g_kind = "pred" /\ g_pc = "done"
    /\ g_order = <<"q2", "q1">>
    /\ Len(PredInstances) >= 3

====
